---- MODULE Spec2Model ----
(***************************************************************************)
(* A model of mold's template composition engine (engine.go, process.go). *)
(*                                                                         *)
(* A template file is given as the tree text/template's parser returns    *)
(* for it: a list of nodes (text, action, if, with, range), every action  *)
(* carrying the arguments of its first command and its byte offset, plus  *)
(* the sections the file defines with {{define}}.  newEngine is modelled  *)
(* step by step: parseLayout, then one parseView per registry file in an  *)
(* arbitrary order (Go's map iteration order), then the return.  Render   *)
(* executes a composed template as html/template does.                    *)
(*                                                                         *)
(* Seven specifications share the module.  Spec is newEngine followed by  *)
(* calls of Render made one after another.  SpecRender starts from a      *)
(* built engine and runs the calls of two callers concurrently, each call *)
(* in the steps html/template takes: lock, escape on first use, execute.  *)
(* SpecMarker rewrites a single marker and executes it, for every form of *)
(* its arguments.  SpecPos applies pos to every short text and offset.    *)
(* SpecExt applies hasExt to short extensions and lists of them.          *)
(* SpecFuncs runs setup's merge of the function table on every map a      *)
(* caller can give.  SpecTree applies processTree, once and again, to     *)
(* every small tree of texts, actions, markers and nested blocks.         *)
(***************************************************************************)
EXTENDS Integers, Sequences, FiniteSets, TLC

VARIABLES
    files,      \* the file collection New is given: name -> parsed file (walk's result)
    layoutSrc,  \* c.layoutRaw as parsed: the layout's tree
    set,        \* templateSet: the registry, name -> templateFile (tree, typ, defs)
    layout,     \* the composed layout's name space (name -> tree), Nil before parseLayout
    m,          \* moldEngine under construction: view name -> composed name space
    todo,       \* registry names the loop of newEngine has not visited yet
    pc,         \* "layout" | "views" | "done" | "failed"
    engine,     \* what New returned: Nil, or the engine map
    err,        \* the error New returned (NoErr when none)
    renders,    \* number of Render calls made
    last,       \* the last Render call: view, data, output written, error
    calls,      \* concurrent Render calls: caller -> where it stands and its result
    escaped,    \* html/template's escapeErr of each composed template
    edited,     \* registry files whose parse trees Render has written to
    raced,      \* callers whose accesses to a parse tree raced with another's
    posBody,    \* pos: the text a position is asked in
    posOffset,  \* pos: the byte offset asked for
    position,   \* pos: the line and column returned, Nil before the call
    marker,     \* a marker under rewriting: its arguments, where it stands, the data
    rewritten,  \* what processTree made of the marker's tree, Nil before
    forwarded,  \* what executing the rewritten tree wrote, Nil before
    exts,       \* hasExt: the extensions listed
    ext,        \* hasExt: the extension asked about
    matched,     \* hasExt: what it returned (found), Nil before the call
    options,    \* setup: the map given with WithFuncMap, Nil when none is
    funcMap,     \* setup: c.funcMap after setup, Nil before
    tmpl,       \* processTree: the templateFile it is called on (name, typ, tree, body)
    parsed,     \* processTree: the tree as the parser left it
    prev,       \* processTree: the tree before the last call
    result,     \* processTree: the references and error of the last call, Nil before
    passes      \* processTree: the number of calls made on the template

\* the variables of concurrent Render calls, those of pos, those of a marker,
\* those of hasExt, those of setup, those of processTree on a tree
callVars == <<calls, escaped, edited, raced>>
posVars == <<posBody, posOffset, position>>
markerVars == <<marker, rewritten, forwarded>>
extVars == <<exts, ext, matched>>
funcVars == <<options, funcMap>>
treeVars == <<tmpl, parsed, prev, result, passes>>

\* the variables of the construction and of the calls made one after another
newVars == <<files, layoutSrc, set, layout, m, todo, pc, engine, err, renders, last>>

vars == <<files, layoutSrc, set, layout, m, todo, pc, engine, err, renders, last,
          calls, escaped, edited, raced, posBody, posOffset, position,
          marker, rewritten, forwarded,
          exts, ext, matched,
          options, funcMap,
          tmpl, parsed, prev, result, passes>>

Nil == [nil |-> TRUE]

(***************************************************************************)
(* Bounds                                                                  *)
(***************************************************************************)
MaxRenders == 2

\* the longest text, in characters, a position is asked in
MaxLen == 3

\* the longest extension, in characters, hasExt is asked about
MaxExt == 3

\* the most extensions listed
MaxExts == 2

\* the most nodes at the top level of a tree processTree is applied to
MaxNodes == 2

\* the most calls of processTree on one template
MaxPasses == 2

(***************************************************************************)
(* Parse trees                                                             *)
(***************************************************************************)
\* arguments of a command
Ident(s) == [t |-> "ident", v |-> s]
Str(s) == [t |-> "string", v |-> s]
Field(s) == [t |-> "field", v |-> s]
Dot == [t |-> "dot", v |-> ""]

\* nodes
Text(s) == [k |-> "text", s |-> s]
Action(args, p) == [k |-> "action", args |-> args, pos |-> p]
Template(name, arg, p) == [k |-> "template", name |-> name, args |-> <<arg>>, pos |-> p]
If(c, l, e) == [k |-> "if", cond |-> c, list |-> l, els |-> e]
With(c, l, e) == [k |-> "with", cond |-> c, list |-> l, els |-> e]
Range(c, l, e) == [k |-> "range", cond |-> c, list |-> l, els |-> e]

IsBlock(n) == n.k \in {"if", "with", "range"}

\* a parsed file: the tree of the template named after the file, its {{define}}d
\* sections, and the marker the file holds (documentation of the library only)
File(tree, defs) == [tree |-> tree, defs |-> defs]
NoDefs == [x \in {} |-> <<>>]

(***************************************************************************)
(* The files the model draws from.  Each is the parse of the source text   *)
(* given beside it; an action's pos is the byte offset of its first token, *)
(* two past its "{{".                                                      *)
(***************************************************************************)
FileNames == {"view.html", "partial.html", "partial2.html"}

\* Hello, {{.Name}}!<br>{{partial "partial.html" .Location}}
ViewSrc ==
    File(<<Text("Hello, "), Action(<<Field("Name")>>, 9), Text("!<br>"),
           Action(<<Ident("partial"), Str("partial.html"), Field("Location")>>, 23)>>, NoDefs)
\* Location: {{.}}
PartialSrc == File(<<Text("Location: "), Action(<<Dot>>, 12)>>, NoDefs)
\* Age: {{.}}
Partial2Src == File(<<Text("Age: "), Action(<<Dot>>, 7)>>, NoDefs)
\* {{partial "view.html"}}
RefViewSrc == File(<<Action(<<Ident("partial"), Str("view.html")>>, 2)>>, NoDefs)
\* {{partial "invalid.html"}}
RefInvalidSrc == File(<<Action(<<Ident("partial"), Str("invalid.html")>>, 2)>>, NoDefs)
\* {{if .Name}}{{else}}{{partial}}{{end}}
NoTargetSrc ==
    File(<<If(Field("Name"), <<>>, <<Action(<<Ident("partial")>>, 22)>>)>>, NoDefs)
\* {{range .Items}}{{render}}{{end}}
RenderSrc ==
    File(<<Range(Field("Items"), <<Action(<<Ident("render")>>, 18)>>, <<>>)>>, NoDefs)
\* {{with .Name}}{{partial "partial2.html"}}{{end}}
RefPartial2Src ==
    File(<<With(Field("Name"),
                <<Action(<<Ident("partial"), Str("partial2.html")>>, 16)>>, <<>>)>>, NoDefs)
\* {{define "head"}}<title>{{.Name}}</title>{{end}}<h1>Hi</h1>
HeadSrc ==
    File(<<Text("<h1>Hi</h1>")>>,
         [x \in {"head"} |-> <<Text("<title>"), Action(<<Field("Name")>>, 26), Text("</title>")>>])
\* {{define "head"}}{{partial "invalid.html"}}{{end}}<h1>Hi</h1>
SectionPartialSrc ==
    File(<<Text("<h1>Hi</h1>")>>,
         [x \in {"head"} |-> <<Action(<<Ident("partial"), Str("invalid.html")>>, 19)>>])
\* {{define "head"}}{{render}}{{end}}<h1>Hi</h1>
SectionRenderSrc ==
    File(<<Text("<h1>Hi</h1>")>>, [x \in {"head"} |-> <<Action(<<Ident("render")>>, 19)>>])
\* {{define "head"}}{{partial}}{{end}}<h1>Hi</h1>
SectionNoTargetSrc ==
    File(<<Text("<h1>Hi</h1>")>>, [x \in {"head"} |-> <<Action(<<Ident("partial")>>, 19)>>])
\* {{define "body"}}<p>own</p>{{end}}<h1>Hi</h1>
BodySrc == File(<<Text("<h1>Hi</h1>")>>, [x \in {"body"} |-> <<Text("<p>own</p>")>>])
\* {{render "view.html"}}
RenderViewSrc == File(<<Action(<<Ident("render"), Str("view.html")>>, 2)>>, NoDefs)

\* {{render}}
\* {{partial}}          (two lines, a line feed between them)
TwoErrorsSrc ==
    File(<<Action(<<Ident("render")>>, 2), Text("\n"), Action(<<Ident("partial")>>, 13)>>,
         NoDefs)

Contents ==
    {ViewSrc, PartialSrc, Partial2Src, RefViewSrc, RefInvalidSrc, NoTargetSrc,
     RenderSrc, RefPartial2Src, HeadSrc, SectionPartialSrc, SectionRenderSrc,
     SectionNoTargetSrc, BodySrc, RenderViewSrc, TwoErrorsSrc}

\* the embedded default layout (README, Layouts):
\* <html><head>{{render "head"}}</head><body>{{render}}</body></html>
DefaultLayout ==
    [file |-> "default_layout",
     tree |-> <<Text("<html><head>"), Action(<<Ident("render"), Str("head")>>, 14),
                Text("</head><body>"), Action(<<Ident("render")>>, 44),
                Text("</body></html>")>>]
\* <html><body>{{render}}<br>{{partial "partial2.html" .Age}}</body></html>
TestLayout ==
    [file |-> "layout.html",
     tree |-> <<Text("<html><body>"), Action(<<Ident("render")>>, 14), Text("<br>"),
                Action(<<Ident("partial"), Str("partial2.html"), Field("Age")>>, 28),
                Text("</body></html>")>>]
\* {{partial "invalid.html"}}
InvalidLayout ==
    [file |-> "layout.html",
     tree |-> <<Action(<<Ident("partial"), Str("invalid.html")>>, 2)>>]
\* {{partial}}
NoTargetLayout == [file |-> "layout.html", tree |-> <<Action(<<Ident("partial")>>, 2)>>]
\* {{render "layout.html"}}{{render}}
SelfLayout ==
    [file |-> "layout.html",
     tree |-> <<Action(<<Ident("render"), Str("layout.html")>>, 2),
                Action(<<Ident("render")>>, 26)>>]
\* {{with .Name}}{{render "layout"}}{{end}}
CyclicLayout ==
    [file |-> "layout.html",
     tree |-> <<With(Field("Name"), <<Action(<<Ident("render"), Str("layout")>>, 16)>>, <<>>)>>]

Layouts == {DefaultLayout, TestLayout, InvalidLayout, NoTargetLayout, SelfLayout, CyclicLayout}

\* every file collection over FileNames: a file is absent or holds one of Contents
FileSets == UNION {[S -> Contents] : S \in SUBSET FileNames}

\* The raw source of a file as read (templateFile.body): its characters.  A file
\* is told by its parse; the text is the one given beside it in the library.
\* A tree drawn outside the library (SpecMarker, SpecTree) stands for no text
\* here: its errors are told by their offsets, not by line and column.
Raw(f) ==
    CASE f = ViewSrc ->
          <<"H", "e", "l", "l", "o", ",", " ", "{", "{", ".", "N", "a", "m", "e", "}", "}", "!",
             "<", "b", "r", ">", "{", "{", "p", "a", "r", "t", "i", "a", "l", " ",
             "\"", "p", "a", "r", "t", "i", "a", "l", ".", "h", "t", "m", "l", "\"",
             " ", ".", "L", "o", "c", "a", "t", "i", "o", "n", "}", "}">>
      [] f = PartialSrc ->
          <<"L", "o", "c", "a", "t", "i", "o", "n", ":", " ", "{", "{", ".", "}", "}">>
      [] f = Partial2Src ->
          <<"A", "g", "e", ":", " ", "{", "{", ".", "}", "}">>
      [] f = RefViewSrc ->
          <<"{", "{", "p", "a", "r", "t", "i", "a", "l", " ", "\"", "v", "i", "e", "w", ".", "h",
             "t", "m", "l", "\"", "}", "}">>
      [] f = RefInvalidSrc ->
          <<"{", "{", "p", "a", "r", "t", "i", "a", "l", " ", "\"", "i", "n", "v", "a", "l", "i",
             "d", ".", "h", "t", "m", "l", "\"", "}", "}">>
      [] f = NoTargetSrc ->
          <<"{", "{", "i", "f", " ", ".", "N", "a", "m", "e", "}", "}", "{", "{", "e", "l", "s",
             "e", "}", "}", "{", "{", "p", "a", "r", "t", "i", "a", "l", "}", "}", "{",
             "{", "e", "n", "d", "}", "}">>
      [] f = RenderSrc ->
          <<"{", "{", "r", "a", "n", "g", "e", " ", ".", "I", "t", "e", "m", "s", "}", "}", "{",
             "{", "r", "e", "n", "d", "e", "r", "}", "}", "{", "{", "e", "n", "d", "}",
             "}">>
      [] f = RefPartial2Src ->
          <<"{", "{", "w", "i", "t", "h", " ", ".", "N", "a", "m", "e", "}", "}", "{", "{", "p",
             "a", "r", "t", "i", "a", "l", " ", "\"", "p", "a", "r", "t", "i", "a",
             "l", "2", ".", "h", "t", "m", "l", "\"", "}", "}", "{", "{", "e", "n",
             "d", "}", "}">>
      [] f = HeadSrc ->
          <<"{", "{", "d", "e", "f", "i", "n", "e", " ", "\"", "h", "e", "a", "d", "\"", "}",
             "}", "<", "t", "i", "t", "l", "e", ">", "{", "{", ".", "N", "a", "m", "e",
             "}", "}", "<", "/", "t", "i", "t", "l", "e", ">", "{", "{", "e", "n", "d",
             "}", "}", "<", "h", "1", ">", "H", "i", "<", "/", "h", "1", ">">>
      [] f = SectionPartialSrc ->
          <<"{", "{", "d", "e", "f", "i", "n", "e", " ", "\"", "h", "e", "a", "d", "\"", "}",
             "}", "{", "{", "p", "a", "r", "t", "i", "a", "l", " ", "\"", "i", "n",
             "v", "a", "l", "i", "d", ".", "h", "t", "m", "l", "\"", "}", "}", "{",
             "{", "e", "n", "d", "}", "}", "<", "h", "1", ">", "H", "i", "<", "/", "h",
             "1", ">">>
      [] f = SectionRenderSrc ->
          <<"{", "{", "d", "e", "f", "i", "n", "e", " ", "\"", "h", "e", "a", "d", "\"", "}",
             "}", "{", "{", "r", "e", "n", "d", "e", "r", "}", "}", "{", "{", "e", "n",
             "d", "}", "}", "<", "h", "1", ">", "H", "i", "<", "/", "h", "1", ">">>
      [] f = SectionNoTargetSrc ->
          <<"{", "{", "d", "e", "f", "i", "n", "e", " ", "\"", "h", "e", "a", "d", "\"", "}",
             "}", "{", "{", "p", "a", "r", "t", "i", "a", "l", "}", "}", "{", "{", "e",
             "n", "d", "}", "}", "<", "h", "1", ">", "H", "i", "<", "/", "h", "1", ">">>
      [] f = BodySrc ->
          <<"{", "{", "d", "e", "f", "i", "n", "e", " ", "\"", "b", "o", "d", "y", "\"", "}",
             "}", "<", "p", ">", "o", "w", "n", "<", "/", "p", ">", "{", "{", "e", "n",
             "d", "}", "}", "<", "h", "1", ">", "H", "i", "<", "/", "h", "1", ">">>
      [] f = RenderViewSrc ->
          <<"{", "{", "r", "e", "n", "d", "e", "r", " ", "\"", "v", "i", "e", "w", ".", "h", "t",
             "m", "l", "\"", "}", "}">>
      [] f = TwoErrorsSrc ->
          <<"{", "{", "r", "e", "n", "d", "e", "r", "}", "}", "\n", "{", "{", "p", "a", "r", "t",
             "i", "a", "l", "}", "}">>
      [] f = File(DefaultLayout.tree, NoDefs) ->
          <<"<", "h", "t", "m", "l", ">", "<", "h", "e", "a", "d", ">", "{", "{", "r", "e", "n",
             "d", "e", "r", " ", "\"", "h", "e", "a", "d", "\"", "}", "}", "<", "/",
             "h", "e", "a", "d", ">", "<", "b", "o", "d", "y", ">", "{", "{", "r", "e",
             "n", "d", "e", "r", "}", "}", "<", "/", "b", "o", "d", "y", ">", "<", "/",
             "h", "t", "m", "l", ">">>
      [] f = File(TestLayout.tree, NoDefs) ->
          <<"<", "h", "t", "m", "l", ">", "<", "b", "o", "d", "y", ">", "{", "{", "r", "e", "n",
             "d", "e", "r", "}", "}", "<", "b", "r", ">", "{", "{", "p", "a", "r", "t",
             "i", "a", "l", " ", "\"", "p", "a", "r", "t", "i", "a", "l", "2", ".",
             "h", "t", "m", "l", "\"", " ", ".", "A", "g", "e", "}", "}", "<", "/",
             "b", "o", "d", "y", ">", "<", "/", "h", "t", "m", "l", ">">>
      [] f = File(InvalidLayout.tree, NoDefs) ->
          <<"{", "{", "p", "a", "r", "t", "i", "a", "l", " ", "\"", "i", "n", "v", "a", "l", "i",
             "d", ".", "h", "t", "m", "l", "\"", "}", "}">>
      [] f = File(NoTargetLayout.tree, NoDefs) ->
          <<"{", "{", "p", "a", "r", "t", "i", "a", "l", "}", "}">>
      [] f = File(SelfLayout.tree, NoDefs) ->
          <<"{", "{", "r", "e", "n", "d", "e", "r", " ", "\"", "l", "a", "y", "o", "u", "t", ".",
             "h", "t", "m", "l", "\"", "}", "}", "{", "{", "r", "e", "n", "d", "e",
             "r", "}", "}">>
      [] f = File(CyclicLayout.tree, NoDefs) ->
          <<"{", "{", "w", "i", "t", "h", " ", ".", "N", "a", "m", "e", "}", "}", "{", "{", "r",
             "e", "n", "d", "e", "r", " ", "\"", "l", "a", "y", "o", "u", "t", "\"",
             "}", "}", "{", "{", "e", "n", "d", "}", "}">>
      [] OTHER -> <<>>

\* the file system of mold_test.go's createTestFS, layout.html aside
TestFS ==
    [n \in FileNames |->
        CASE n = "view.html" -> ViewSrc
          [] n = "partial.html" -> PartialSrc
          [] n = "partial2.html" -> Partial2Src]

(***************************************************************************)
(* process.go: the tree rewriter                                           *)
(***************************************************************************)
renderFunc == "render"
partialFunc == "partial"

layoutType == "layout"
viewType == "view"
partialType == "partial"

\* the characters of a text: a letter, a line feed, a letter of two bytes
Chars == {"a", "\n", "é"}

\* the number of bytes of a character in UTF-8: range over a string steps by it
Width(char) == IF char = "é" THEN 2 ELSE 1

\* the texts of at most MaxLen characters
Bodies == UNION {[1..n -> Chars] : n \in 0..MaxLen}

RECURSIVE posLoop(_, _, _, _, _, _)
\* the loop of pos from the k-th character on, which starts at byte i
posLoop(str, p, k, i, line, col) ==
    IF k > Len(str) \/ i >= p THEN [line |-> line, col |-> col]
    ELSE IF str[k] = "\n" THEN posLoop(str, p, k + 1, i + Width(str[k]), line + 1, 1)
    ELSE posLoop(str, p, k + 1, i + Width(str[k]), line, col + 1)

\* pos comparing the offset with the number of characters passed
posByCharacters(str, p) == posLoop([k \in DOMAIN str |-> IF str[k] = "é" THEN "a" ELSE str[k]],
                                   p, 1, 0, 1, 1)

\* pos(body, pos)
pos(str, p) == posLoop(str, p, 1, 0, 1, 1)

\* errors: a posErr is (kind, pos, fn); processTree adds the template's name and
\* role and the line and column of pos, the composer the reference it was resolving
NoErr ==
    [kind |-> "none", pos |-> 0, fn |-> "", file |-> "", typ |-> "", ref |-> "",
     line |-> 0, col |-> 0]
posErr(kind, p, fn) ==
    [kind |-> kind, pos |-> p, fn |-> fn, file |-> "", typ |-> "", ref |-> "",
     line |-> 0, col |-> 0]
ErrNotFound(ref) ==
    [kind |-> "notFound", pos |-> 0, fn |-> "", file |-> "", typ |-> "", ref |-> ref,
     line |-> 0, col |-> 0]

\* getActionArgs taking the third argument for the field whatever it is
getActionArgsAnyThird(args) ==
    [fn |-> IF Len(args) > 0 /\ args[1].t = "ident" THEN args[1].v ELSE "",
     file |-> IF Len(args) > 1 /\ args[2].t = "string" THEN args[2].v ELSE "",
     field |-> IF Len(args) > 2 THEN args[3] ELSE Nil]

\* getActionArgs: the callee when the first argument is an identifier, the target
\* when the second is a string literal, the field when the third is a field
getActionArgs(args) ==
    [fn |-> IF Len(args) > 0 /\ args[1].t = "ident" THEN args[1].v ELSE "",
     file |-> IF Len(args) > 1 /\ args[2].t = "string" THEN args[2].v ELSE "",
     field |-> IF Len(args) > 2 /\ args[3].t = "field" THEN args[3] ELSE Nil]

\* invalidFuncType whose partial case forbids render only: a partial may call partial
invalidFuncTypePartialNests(typ, funcName) ==
    CASE typ = viewType -> funcName = renderFunc
      [] typ = partialType -> funcName = renderFunc
      [] OTHER -> FALSE

invalidFuncType(typ, funcName) ==
    CASE typ = viewType -> funcName = renderFunc
      [] typ = partialType -> funcName = renderFunc \/ funcName = partialFunc
      [] OTHER -> FALSE

\* processActionNode: the error, and the node that stands at parent.Nodes[index]
\* afterwards.  root is the template being processed: its name and its role.
processActionNode(root, node, funcName) ==
    LET a == getActionArgs(node.args)
        name == a.file
        arg == IF funcName = partialFunc /\ a.field # Nil THEN a.field ELSE Dot
    IN  IF name = root.name
          THEN [err |-> posErr("cyclic", node.pos, funcName), node |-> node]
        ELSE IF invalidFuncType(root.typ, funcName)
          THEN [err |-> posErr("illegal", node.pos, funcName), node |-> node]
        ELSE IF funcName = partialFunc
          THEN IF name = ""
                 THEN [err |-> posErr("missingTarget", node.pos, funcName), node |-> node]
                 ELSE [err |-> NoErr, node |-> Template(name, arg, node.pos)]
        ELSE IF funcName = renderFunc
          THEN [err |-> NoErr,
                node |-> Template(IF name = "" THEN "body" ELSE name, arg, node.pos)]
        ELSE [err |-> NoErr, node |-> node]

\* a nestedFile
Ref(name, typ) == [name |-> name, typ |-> typ]

\* appendResult: a later error replaces an earlier one; references are kept only
\* while no error has been seen
appendResult(acc, r) ==
    LET e == IF r.err # NoErr THEN r.err ELSE acc.err
    IN  [err |-> e, ts |-> IF e = NoErr THEN acc.ts \o r.ts ELSE acc.ts]

\* what processNode returns for an action: r is processActionNode's result
actionResult(a, r) ==
    IF r.err # NoErr THEN [node |-> r.node, ts |-> <<>>, err |-> r.err]
    ELSE IF a.fn \in {partialFunc, renderFunc} /\ a.file # ""
      THEN [node |-> r.node, ts |-> <<Ref(a.file, a.fn)>>, err |-> NoErr]
    ELSE [node |-> r.node, ts |-> <<>>, err |-> NoErr]

NoRefs == [ts |-> <<>>, err |-> NoErr]

\* blockResult were the ElseList left as it was parsed
blockResultKeepsElse(node, l, e, a) ==
    [node |-> [node EXCEPT !.list = l.node], ts |-> a.ts, err |-> a.err]

\* what processNode returns for an if, with or range whose List returned l and
\* whose ElseList returned e
blockResult(node, l, e, a) ==
    [node |-> [node EXCEPT !.list = l.node, !.els = e.node], ts |-> a.ts, err |-> a.err]

RECURSIVE processNode(_, _)
RECURSIVE processNodes(_, _, _, _)

\* one turn of the loop over l.Nodes: r is what processNode returned for node i
processNodesStep(root, nodes, i, acc, r) ==
    processNodes(root, [nodes EXCEPT ![i] = r.node], i + 1, appendResult(acc, r))

\* the loop over l.Nodes of a ListNode, from index i on: every node is processed,
\* whatever the nodes before it returned
processNodes(root, nodes, i, acc) ==
    IF i > Len(nodes) THEN [node |-> nodes, ts |-> acc.ts, err |-> acc.err]
    ELSE processNodesStep(root, nodes, i, acc, processNode(root, nodes[i]))

processBlock(node, l, e) ==
    blockResult(node, l, e, appendResult(appendResult(NoRefs, l), e))

\* processNode without its branch for range nodes
processNodeNoRange(root, node) ==
    IF node.k = "action"
      THEN IF Len(node.args) > 0
             THEN actionResult(getActionArgs(node.args),
                               processActionNode(root, node, getActionArgs(node.args).fn))
             ELSE [node |-> node, ts |-> <<>>, err |-> NoErr]
    ELSE IF node.k \in {"if", "with"}
      THEN processBlock(node, processNodes(root, node.list, 1, NoRefs),
                              processNodes(root, node.els, 1, NoRefs))
    ELSE [node |-> node, ts |-> <<>>, err |-> NoErr]

\* processNode on one node: the node as it is left in the tree, the references
\* found and the error
processNode(root, node) ==
    IF node.k = "action"
      THEN IF Len(node.args) > 0
             THEN actionResult(getActionArgs(node.args),
                               processActionNode(root, node, getActionArgs(node.args).fn))
             ELSE [node |-> node, ts |-> <<>>, err |-> NoErr]
    ELSE IF IsBlock(node)
      THEN processBlock(node, processNodes(root, node.list, 1, NoRefs),
                              processNodes(root, node.els, 1, NoRefs))
    ELSE [node |-> node, ts |-> <<>>, err |-> NoErr]

\* a posErr as processTree returns it: "name:line:col: typ: message", where
\* lc is pos(t.body, err.pos)
located(t, e, lc) ==
    [e EXCEPT !.file = t.name, !.typ = t.typ, !.line = lc.line, !.col = lc.col]

\* the error of processTree: a posErr gets the template's name and role, and
\* the line and column of its offset in the template's raw source
wrapPosErr(t, r) ==
    [tree |-> r.node,
     ts |-> r.ts,
     err |-> IF r.err # NoErr THEN located(t, r.err, pos(Raw(t.body), r.err.pos))
             ELSE NoErr]

\* processTree on template t = (name, typ, tree, body): the tree as it is left, the
\* references, and the error
processTree(t) == wrapPosErr(t, processNodes(t, t.tree, 1, NoRefs))

(***************************************************************************)
(* engine.go: composition                                                  *)
(***************************************************************************)
\* parse.IsEmptyTree on a list: nothing but white space
RECURSIVE IsEmptyTree(_)
IsEmptyTree(nodes) ==
    \/ nodes = <<>>
    \/ /\ Head(nodes).k = "text"
       /\ Head(nodes).s \in {"", " "}
       /\ IsEmptyTree(Tail(nodes))

\* AddParseTree that never rebinds a defined name
AddParseTreeKeepFirst(ns, name, tree) ==
    IF name \in DOMAIN ns THEN ns
    ELSE [x \in DOMAIN ns \cup {name} |-> IF x = name THEN tree ELSE ns[x]]

\* (*template.Template).AddParseTree on a name space (name -> tree): the tree is
\* bound to the name, except that an empty tree does not replace a defined one
AddParseTree(ns, name, tree) ==
    IF name \in DOMAIN ns /\ IsEmptyTree(tree) THEN ns
    ELSE [x \in DOMAIN ns \cup {name} |-> IF x = name THEN tree ELSE ns[x]]

\* layout.Clone(): an independent copy of every tree of the name space
Clone(ns) == [x \in DOMAIN ns |-> ns[x]]

\* walk: every file of the collection parsed into the registry, no role yet
\* body stands for the text read: the file it is the text of, see Raw
walk(fs) ==
    [n \in DOMAIN fs |-> [tree |-> fs[n].tree, typ |-> "", defs |-> fs[n].defs,
                          body |-> fs[n]]]

\* template.New(ref.name).Parse(""): the empty placeholder of parseLayout
Placeholder == [tree |-> <<>>, typ |-> "", defs |-> NoDefs, body |-> File(<<>>, NoDefs)]

\* parsePartial were the file parsed from its source again at every call
parsePartialFresh(name, t) ==
    processTree([name |-> name, typ |-> t.typ, tree |-> t.body.tree, body |-> t.body])

\* parsePartial on templateFile t named name
parsePartial(name, t) ==
    processTree([name |-> name, typ |-> t.typ, tree |-> t.tree, body |-> t.body])

\* the registry after templateFile t, found under name when known, was changed
putFile(reg, name, known, t) == IF known THEN [reg EXCEPT ![name] = t] ELSE reg

RECURSIVE graftRefs(_, _, _, _)

\* one turn of the loop over refs: t is the file the reference resolved to, stamped
\* partial, and r what parsePartial returned for it
graftRef(st, refs, i, tolerant, known, t, r) ==
    IF r.err # NoErr
      THEN [st EXCEPT !.set = putFile(st.set, refs[i].name, known, [t EXCEPT !.tree = r.tree]),
                      !.err = [r.err EXCEPT !.ref = refs[i].name]]
      ELSE graftRefs([st EXCEPT !.set = putFile(st.set, refs[i].name, known,
                                                [t EXCEPT !.tree = r.tree]),
                                !.ns = AddParseTree(st.ns, refs[i].name, r.tree)],
                     refs, i + 1, tolerant)

resolveRef(st, refs, i, tolerant, known, t) ==
    graftRef(st, refs, i, tolerant, known, t, parsePartial(refs[i].name, t))

\* The loop "for _, ref := range refs" of parseLayout (tolerant: a missing render
\* target gets the placeholder) and of parseView, from index i on.  st holds the
\* registry, the name space grafted into, and the error that ended the loop.
graftRefs(st, refs, i, tolerant) ==
    IF i > Len(refs) \/ st.err # NoErr THEN st
    ELSE IF refs[i].name \notin DOMAIN st.set
      THEN IF ~tolerant \/ refs[i].typ = partialFunc
             THEN [st EXCEPT !.err = ErrNotFound(refs[i].name)]
             ELSE resolveRef(st, refs, i, tolerant, FALSE,
                             [Placeholder EXCEPT !.typ = partialType])
    ELSE resolveRef(st, refs, i, tolerant, TRUE,
                    [st.set[refs[i].name] EXCEPT !.typ = partialType])

\* parseLayout once processTree returned r for the layout
composeLayout(root, r) ==
    IF r.err # NoErr THEN [set |-> root, ns |-> [x \in {"layout"} |-> r.tree], err |-> r.err]
    ELSE graftRefs([set |-> root, ns |-> [x \in {"layout"} |-> r.tree], err |-> NoErr],
                   r.ts, 1, TRUE)

\* parseLayout: the registry as it is left, the composed layout, the error
parseLayout(root, layoutRaw) ==
    composeLayout(root,
                  processTree([name |-> "layout", typ |-> layoutType, tree |-> layoutRaw,
                               body |-> File(layoutRaw, NoDefs)]))

\* body.Templates() in the order ord, each added to the view under its name, the
\* template named after the view under "body"
RECURSIVE addDefined(_, _, _, _)
addDefined(ns, body, name, ord) ==
    IF ord = <<>> THEN ns
    ELSE addDefined(AddParseTree(ns,
                                 IF Head(ord) = name THEN "body" ELSE Head(ord),
                                 IF Head(ord) = name THEN body.tree ELSE body.defs[Head(ord)]),
                    body, name, Tail(ord))

\* parseView once its references were grafted: g is graftRefs' result
addSections(g, name, ord) ==
    IF g.err # NoErr THEN g
    ELSE [g EXCEPT !.ns = addDefined(g.ns, g.set[name], name, ord)]

\* parseView once processTree returned r for the body
composeView(root, view, name, ord, r) ==
    IF r.err # NoErr
      THEN [set |-> [root EXCEPT ![name].typ = viewType, ![name].tree = r.tree],
            ns |-> view, err |-> r.err]
      ELSE addSections(graftRefs([set |-> [root EXCEPT ![name].typ = viewType,
                                                       ![name].tree = r.tree],
                                  ns |-> view, err |-> NoErr], r.ts, 1, FALSE),
                       name, ord)

\* parseView of registry file name, body.Templates() ranging in the order ord
parseView(root, lay, name, ord) ==
    composeView(root, Clone(lay), name, ord,
                processTree([name |-> name, typ |-> viewType, tree |-> root[name].tree,
                             body |-> root[name].body]))

\* the orders in which a set of names can be ranged over
Orders(S) == {o \in [1..Cardinality(S) -> S] : \A x \in S : \E i \in DOMAIN o : o[i] = x}

RECURSIVE parseViews(_, _, _, _)

\* one turn of the loop over the registry: r is what parseView returned for name
viewParsed(st, lay, order, ords, name, r) ==
    IF r.err # NoErr THEN [st EXCEPT !.set = r.set, !.err = r.err]
    ELSE parseViews([st EXCEPT !.set = r.set,
                               !.m = [x \in DOMAIN st.m \cup {name} |->
                                         IF x = name THEN r.ns ELSE st.m[x]]],
                    lay, Tail(order), ords)

\* the loop "for name := range set" of newEngine, ranging in the order order, the
\* body.Templates() of each file ranging in the order ords gives for it
parseViews(st, lay, order, ords) ==
    IF order = <<>> THEN st
    ELSE viewParsed(st, lay, order, ords, Head(order),
                    parseView(st.set, lay, Head(order), ords[Head(order)]))

\* newEngine once parseLayout returned l
layoutParsed(l, order, ords) ==
    IF l.err # NoErr THEN [set |-> l.set, m |-> <<>>, err |-> l.err]
    ELSE parseViews([set |-> l.set, m |-> <<>>, err |-> NoErr], l.ns, order, ords)

\* newEngine as a whole, for one order of each of its map iterations: the engine
\* map and the error it returns
newEngine(fs, layoutRaw, order, ords) ==
    layoutParsed(parseLayout(walk(fs), layoutRaw), order, ords)

\* the orders body.Templates() can range in, for each file of a collection
TemplateOrders(fs) ==
    {f \in [DOMAIN fs -> UNION {Orders({n} \cup DOMAIN fs[n].defs) : n \in DOMAIN fs}] :
        \A n \in DOMAIN fs : f[n] \in Orders({n} \cup DOMAIN fs[n].defs)}

(***************************************************************************)
(* Execution of a composed template (layout.Execute of Render)             *)
(***************************************************************************)
\* data values
VStr(x) == [t |-> "str", v |-> x]
VInt(x) == [t |-> "int", v |-> x]
VList(x) == [t |-> "list", v |-> x]
VMap(x, str) == [t |-> "map", v |-> x, str |-> str]

\* mold_test.go's data, with a list to range over
DataJohn ==
    VMap([Name |-> VStr("John Doe"), Location |-> VStr("Mars"), Age |-> VInt(40),
          Items |-> VList(<<VStr("x"), VStr("y")>>)],
         "map[Age:40 Items:[x y] Location:Mars Name:John Doe]")
\* a value with no fields
DataScalar == VStr("R&D")
Datas == {DataJohn, DataScalar}

\* fmt's default formatting of a value
Format(val) ==
    CASE val.t = "str" -> val.v
      [] val.t = "int" -> ToString(val.v)
      [] val.t = "list" -> "[x y]"
      [] OTHER -> val.str

\* html/template's escaping of a printed value in element content
HTMLEscape(x) == IF x = "R&D" THEN "R&amp;D" ELSE x

Truth(val) ==
    CASE val.t = "str" -> val.v # ""
      [] val.t = "int" -> val.v # 0
      [] val.t = "list" -> val.v # <<>>
      [] OTHER -> TRUE

\* the value of an argument against dot: ok is FALSE when evaluation fails
Eval(arg, dot) ==
    CASE arg.t = "dot" -> [ok |-> TRUE, val |-> dot]
      [] arg.t = "string" -> [ok |-> TRUE, val |-> VStr(arg.v)]
      [] arg.t = "field" ->
            IF dot.t = "map" /\ arg.v \in DOMAIN dot.v
              THEN [ok |-> TRUE, val |-> dot.v[arg.v]]
              ELSE [ok |-> FALSE, val |-> dot]
      [] OTHER -> [ok |-> FALSE, val |-> dot]

\* an action that was not rewritten: a printed value, or a call of a function of
\* the FuncMap; render and partial are placeholderFuncs' functions
EvalAction(args, dot) ==
    IF args[1].t # "ident" THEN Eval(args[1], dot)
    ELSE IF args[1].v = renderFunc THEN [ok |-> TRUE, val |-> VStr("")]
    ELSE IF args[1].v = partialFunc THEN [ok |-> Len(args) > 1, val |-> VStr("")]
    ELSE IF Len(args) > 1 THEN Eval(args[2], dot)
    ELSE [ok |-> FALSE, val |-> dot]

RECURSIVE Invoked(_)
\* the template names a tree invokes, at any depth
Invoked(nodes) ==
    IF nodes = <<>> THEN {}
    ELSE LET n == Head(nodes)
         IN  (CASE n.k = "template" -> {n.name}
                [] IsBlock(n) -> Invoked(n.list) \cup Invoked(n.els)
                [] OTHER -> {}) \cup Invoked(Tail(nodes))

RECURSIVE Reach(_, _, _)
\* the names reachable from the names in todoNames through invocations
Reach(ns, todoNames, seen) ==
    IF todoNames = {} THEN seen
    ELSE LET x == CHOOSE y \in todoNames : TRUE
             next == IF x \in DOMAIN ns THEN Invoked(ns[x]) ELSE {}
         IN  Reach(ns, (todoNames \cup next) \ (seen \cup {x}), seen \cup {x})

\* html/template escapes the whole name space before it executes anything, and
\* fails on an invocation of a name that is not defined
Escapable(ns) == Reach(ns, {"layout"}, {}) \subseteq DOMAIN ns

RECURSIVE ExecNodes(_, _, _, _)
RECURSIVE ExecEach(_, _, _, _, _)
RECURSIVE ExecRest(_, _, _, _)
\* executing nodes against dot after out was written: the output and whether it
\* ended in an error
ExecNodes(ns, nodes, dot, out) ==
    IF nodes = <<>> THEN [out |-> out, ok |-> TRUE]
    ELSE ExecRest(ns, Tail(nodes), dot,
                  LET n == Head(nodes) IN
                  CASE n.k = "text" -> [out |-> out \o n.s, ok |-> TRUE]
                    [] n.k = "action" ->
                          LET v == EvalAction(n.args, dot)
                          IN  IF v.ok
                                THEN [out |-> out \o HTMLEscape(Format(v.val)), ok |-> TRUE]
                                ELSE [out |-> out, ok |-> FALSE]
                    [] n.k = "template" ->
                          LET v == Eval(n.args[1], dot)
                          IN  IF v.ok /\ n.name \in DOMAIN ns
                                THEN ExecNodes(ns, ns[n.name], v.val, out)
                                ELSE [out |-> out, ok |-> FALSE]
                    [] n.k = "if" ->
                          LET v == Eval(n.cond, dot)
                          IN  IF ~v.ok THEN [out |-> out, ok |-> FALSE]
                              ELSE ExecNodes(ns, IF Truth(v.val) THEN n.list ELSE n.els, dot, out)
                    [] n.k = "with" ->
                          LET v == Eval(n.cond, dot)
                          IN  IF ~v.ok THEN [out |-> out, ok |-> FALSE]
                              ELSE IF Truth(v.val) THEN ExecNodes(ns, n.list, v.val, out)
                              ELSE ExecNodes(ns, n.els, dot, out)
                    [] n.k = "range" ->
                          LET v == Eval(n.cond, dot)
                          IN  IF ~v.ok \/ v.val.t # "list" THEN [out |-> out, ok |-> FALSE]
                              ELSE IF v.val.v = <<>> THEN ExecNodes(ns, n.els, dot, out)
                              ELSE ExecEach(ns, n.list, v.val.v, 1, out))

\* the nodes after one that left r: execution stops at the first error
ExecRest(ns, nodes, dot, r) == IF r.ok THEN ExecNodes(ns, nodes, dot, r.out) ELSE r

ExecEachRest(ns, nodes, elems, i, r) ==
    IF r.ok THEN ExecEach(ns, nodes, elems, i + 1, r.out) ELSE r

ExecEach(ns, nodes, elems, i, out) ==
    IF i > Len(elems) THEN [out |-> out, ok |-> TRUE]
    ELSE ExecEachRest(ns, nodes, elems, i, ExecNodes(ns, nodes, elems[i], out))

\* (*template.Template).Execute of the composed template ns
Execute(ns, data) ==
    IF ~Escapable(ns) THEN [out |-> "", ok |-> FALSE]
    ELSE ExecNodes(ns, ns["layout"], data, "")

\* moldEngine.Render: what is written to w and what is returned
renderResult(view, r) ==
    [out |-> r.out, err |-> IF r.ok THEN "" ELSE "error rendering " \o view]

\* Render returning no error for a view the engine does not hold
RenderUnknownAsEmpty(e, view, data) ==
    IF view \notin DOMAIN e THEN [out |-> "", err |-> ""]
    ELSE renderResult(view, Execute(e[view], data))

Render(e, view, data) ==
    IF view \notin DOMAIN e THEN [out |-> "", err |-> "ErrNotFound"]
    ELSE renderResult(view, Execute(e[view], data))

(***************************************************************************)
(* newEngine and Render as a state machine                                 *)
(***************************************************************************)
\* the callers of Render that run concurrently
Callers == {"a", "b"}

\* no Render call is under way
NoCalls ==
    /\ calls = [c \in Callers |-> [pc |-> "idle"]]
    /\ escaped = <<>>
    /\ edited = {}
    /\ raced = {}

\* no marker is under rewriting
NoMarker ==
    /\ marker = Nil
    /\ rewritten = Nil
    /\ forwarded = Nil

\* no position is asked for
NoPos ==
    /\ posBody = <<>>
    /\ posOffset = 0
    /\ position = Nil

\* no extension is asked about
NoExt ==
    /\ exts = <<>>
    /\ ext = <<>>
    /\ matched = Nil

\* setup has not run and no function is given
NoFuncs ==
    /\ options = Nil
    /\ funcMap = Nil

\* no tree is under processing
NoTree ==
    /\ tmpl = Nil
    /\ parsed = <<>>
    /\ prev = <<>>
    /\ result = Nil
    /\ passes = 0

\* no construction is under way
NoNew ==
    /\ files = <<>>
    /\ layoutSrc = DefaultLayout
    /\ set = <<>>
    /\ layout = Nil
    /\ m = <<>>
    /\ todo = {}
    /\ pc = "layout"
    /\ engine = Nil
    /\ err = NoErr
    /\ renders = 0
    /\ last = Nil

Init ==
    /\ files \in FileSets
    /\ layoutSrc \in Layouts
    /\ set = walk(files)
    /\ layout = Nil
    /\ m = [x \in {} |-> Nil]
    /\ todo = DOMAIN files
    /\ pc = "layout"
    /\ engine = Nil
    /\ err = NoErr
    /\ renders = 0
    /\ last = Nil
    /\ NoCalls
    /\ NoPos
    /\ NoMarker
    /\ NoExt
    /\ NoFuncs
    /\ NoTree

\* newEngine, lines 43-47: process layout
ParseLayout ==
    /\ pc = "layout"
    /\ \E r \in {parseLayout(set, layoutSrc.tree)} :
           /\ set' = r.set
           /\ IF r.err # NoErr
                THEN /\ pc' = "failed"
                     /\ err' = r.err
                     /\ layout' = layout
                ELSE /\ pc' = "views"
                     /\ err' = err
                     /\ layout' = r.ns
    /\ UNCHANGED <<files, layoutSrc, m, todo, engine, renders, last>>
    /\ UNCHANGED <<callVars, posVars, markerVars, extVars, funcVars, treeVars>>

\* the loop over the registry keeping no composed template for a file that was
\* consumed as a partial
ParseViewSkipsPartials ==
    /\ pc = "views"
    /\ \E name \in todo :
         \E ord \in Orders({name} \cup DOMAIN set[name].defs) :
           \E r \in {parseView(set, layout, name, ord)} :
               /\ set' = r.set
               /\ todo' = todo \ {name}
               /\ IF r.err # NoErr
                    THEN /\ pc' = "failed"
                         /\ err' = r.err
                         /\ m' = m
                    ELSE /\ pc' = pc
                         /\ err' = err
                         /\ m' = IF set[name].typ = partialType THEN m
                                 ELSE [x \in DOMAIN m \cup {name} |->
                                          IF x = name THEN r.ns ELSE m[x]]
    /\ UNCHANGED <<files, layoutSrc, layout, engine, renders, last>>
    /\ UNCHANGED <<callVars, posVars, markerVars, extVars, funcVars, treeVars>>

\* the loop over the registry composing each view into the layout itself
ParseViewIntoLayout ==
    /\ pc = "views"
    /\ \E name \in todo :
         \E ord \in Orders({name} \cup DOMAIN set[name].defs) :
           \E r \in {parseView(set, layout, name, ord)} :
               /\ set' = r.set
               /\ todo' = todo \ {name}
               /\ IF r.err # NoErr
                    THEN /\ pc' = "failed"
                         /\ err' = r.err
                         /\ m' = m
                         /\ layout' = layout
                    ELSE /\ pc' = pc
                         /\ err' = err
                         /\ m' = [x \in DOMAIN m \cup {name} |->
                                     IF x = name THEN r.ns ELSE m[x]]
                         /\ layout' = r.ns
    /\ UNCHANGED <<files, layoutSrc, engine, renders, last>>
    /\ UNCHANGED <<callVars, posVars, markerVars, extVars, funcVars, treeVars>>

\* newEngine, lines 50-56: one turn of the loop over the registry, for any file
\* not visited yet
ParseView ==
    /\ pc = "views"
    /\ \E name \in todo :
         \E ord \in Orders({name} \cup DOMAIN set[name].defs) :
           \E r \in {parseView(set, layout, name, ord)} :
               /\ set' = r.set
               /\ todo' = todo \ {name}
               /\ IF r.err # NoErr
                    THEN /\ pc' = "failed"
                         /\ err' = r.err
                         /\ m' = m
                    ELSE /\ pc' = pc
                         /\ err' = err
                         /\ m' = [x \in DOMAIN m \cup {name} |->
                                     IF x = name THEN r.ns ELSE m[x]]
    /\ UNCHANGED <<files, layoutSrc, layout, engine, renders, last>>
    /\ UNCHANGED <<callVars, posVars, markerVars, extVars, funcVars, treeVars>>

\* newEngine returning the engine from inside the loop over the registry
ReturnEarly ==
    /\ pc = "views"
    /\ pc' = "done"
    /\ engine' = m
    /\ UNCHANGED <<files, layoutSrc, set, layout, m, todo, err, renders, last>>
    /\ UNCHANGED <<callVars, posVars, markerVars, extVars, funcVars, treeVars>>

\* newEngine, line 58: every file visited, the engine is returned
Return ==
    /\ pc = "views"
    /\ todo = {}
    /\ pc' = "done"
    /\ engine' = m
    /\ UNCHANGED <<files, layoutSrc, set, layout, m, todo, err, renders, last>>
    /\ UNCHANGED <<callVars, posVars, markerVars, extVars, funcVars, treeVars>>

\* a call of Render on the engine New returned
DoRender ==
    /\ pc = "done"
    /\ renders < MaxRenders
    /\ \E view \in FileNames \cup {"nonexistent.html"} :
         \E data \in Datas :
           \E r \in {Render(engine, view, data)} :
               last' = [view |-> view, data |-> data, out |-> r.out, err |-> r.err]
    /\ renders' = renders + 1
    /\ UNCHANGED <<files, layoutSrc, set, layout, m, todo, pc, engine, err>>
    /\ UNCHANGED <<callVars, posVars, markerVars, extVars, funcVars, treeVars>>

Next == ParseLayout \/ ParseView \/ Return \/ DoRender

Spec == Init /\ [][Next]_vars

(***************************************************************************)
(* Render called concurrently on a built engine                            *)
(***************************************************************************)
\* RenderFS: the file collections engines are built from for concurrent calls:
\* createTestFS and its parts, and a view with a body of its own
RenderFS ==
    {[n \in S |-> TestFS[n]] : S \in SUBSET FileNames \ {{}}}
        \cup {[n \in {"view.html"} |-> SectionNoTargetSrc]}

\* the layouts those engines are built with
RenderLayouts == {DefaultLayout, TestLayout}

RECURSIVE Editable(_)
\* html/template's escaper rewrites the pipeline of every action and the name of
\* every template invocation it walks through: whether a tree holds such a node
Editable(nodes) ==
    IF nodes = <<>> THEN FALSE
    ELSE \/ Head(nodes).k \in {"action", "template"}
         \/ IsBlock(Head(nodes)) /\ (Editable(Head(nodes).list) \/ Editable(Head(nodes).els))
         \/ Editable(Tail(nodes))

\* the names of the references processTree returned
refNames(ts) == {ts[i].name : i \in DOMAIN ts}

\* The registry files whose parse trees the composed template of view holds by
\* pointer: AddParseTree does not copy the tree it is given, so the view's own
\* file (under "body") and the partials its content references are the registry's
\* trees themselves, shared with every other view that grafts them.  What the
\* view has from the layout was copied by Clone.
Grafted(view) ==
    {view} \cup refNames(processTree([name |-> view, typ |-> viewType,
                                      tree |-> files[view].tree, body |-> files[view]]).ts)

\* the name a grafted file has in the composed template of view
graftName(view, x) == IF x = view THEN "body" ELSE x

\* the registry files whose trees executing the composed template of view reads
Reads(view) ==
    {x \in Grafted(view) : graftName(view, x) \in Reach(engine[view], {"layout"}, {})}

\* the registry files whose trees escaping the composed template of view writes:
\* the escaper commits its edits only when the whole template escaped
Writes(view) ==
    IF Escapable(engine[view])
      THEN {x \in Reads(view) : Editable(engine[view][graftName(view, x)])}
      ELSE {}

\* Calls x and y are inside html/template on different composed templates, at
\* least one escaping, and touch a same parse tree that one of them writes: the
\* name spaces have each their own mutex, so nothing orders the two accesses.
Conflict(x, y) ==
    /\ x.pc \in {"escape", "execute"}
    /\ y.pc \in {"escape", "execute"}
    /\ x.view # y.view
    /\ \/ x.pc = "escape" /\ Writes(x.view) \cap Reads(y.view) # {}
       \/ y.pc = "escape" /\ Writes(y.view) \cap Reads(x.view) # {}

\* the callers that are in a data race in cs
Racing(cs) == {c \in Callers : \E d \in Callers \ {c} : Conflict(cs[c], cs[d])}

\* what a call returns whose accesses raced: nothing the code determines
Undefined == [out |-> "", err |-> "undefined"]

\* a call that returned r
returned(call, r) ==
    [pc |-> "done", view |-> call.view, data |-> call.data, late |-> call.late,
     out |-> r.out, err |-> r.err]

\* some call has returned an error of execution to its caller
failedBefore ==
    \E d \in Callers : calls[d].pc = "done" /\ calls[d].err \notin {"", "ErrNotFound"}

\* an engine New returned, no call under way, no template executed yet
InitRender ==
    /\ files \in RenderFS
    /\ layoutSrc \in RenderLayouts
    /\ \E order \in Orders(DOMAIN files) : \E ords \in TemplateOrders(files) :
         \E e \in {newEngine(files, layoutSrc.tree, order, ords)} :
             /\ e.err = NoErr
             /\ set = e.set
             /\ m = e.m
             /\ engine = e.m
    /\ layout = parseLayout(walk(files), layoutSrc.tree).ns
    /\ todo = {}
    /\ pc = "done"
    /\ err = NoErr
    /\ renders = 0
    /\ last = Nil
    /\ calls = [c \in Callers |-> [pc |-> "idle"]]
    /\ escaped = [v \in DOMAIN engine |-> "no"]
    /\ edited = {}
    /\ raced = {}
    /\ NoPos
    /\ NoMarker
    /\ NoExt
    /\ NoFuncs
    /\ NoTree

\* Render, lines 63-66: the lookup in the engine map; late records whether a call
\* that failed had returned when this one began
CallRender(c) ==
    /\ calls[c].pc = "idle"
    /\ \E view \in FileNames \cup {"nonexistent.html"} : \E data \in Datas :
         calls' = [calls EXCEPT ![c] =
                      IF view \notin DOMAIN engine
                        THEN [pc |-> "done", view |-> view, data |-> data,
                              late |-> failedBefore, out |-> "", err |-> "ErrNotFound"]
                        ELSE [pc |-> "lock", view |-> view, data |-> data,
                              late |-> failedBefore]]
    /\ raced' = raced \cup Racing(calls')
    /\ UNCHANGED <<escaped, edited>>
    /\ UNCHANGED <<newVars, posVars, markerVars, extVars, funcVars, treeVars>>

\* layout.Execute entering escape(): it takes the mutex of the name space, and
\* returns at once when the template was escaped before
Lock(c) ==
    /\ calls[c].pc = "lock"
    /\ \A d \in Callers \ {c} : ~(calls[d].pc = "escape" /\ calls[d].view = calls[c].view)
    /\ calls' = [calls EXCEPT ![c] =
                    CASE escaped[calls[c].view] = "ok" -> [@ EXCEPT !.pc = "execute"]
                      [] escaped[calls[c].view] = "err" ->
                            returned(@, Render(engine, @.view, @.data))
                      [] OTHER -> [@ EXCEPT !.pc = "escape"]]
    /\ raced' = raced \cup Racing(calls')
    /\ UNCHANGED <<escaped, edited>>
    /\ UNCHANGED <<newVars, posVars, markerVars, extVars, funcVars, treeVars>>

\* escape() on the first execution: the escaper walks the template, and when all
\* of it escaped, commits its edits to the parse trees
Escape(c) ==
    /\ calls[c].pc = "escape"
    /\ IF Escapable(engine[calls[c].view])
         THEN /\ escaped' = [escaped EXCEPT ![calls[c].view] = "ok"]
              /\ edited' = edited \cup Writes(calls[c].view)
              /\ calls' = [calls EXCEPT ![c].pc = "execute"]
         ELSE /\ escaped' = [escaped EXCEPT ![calls[c].view] = "err"]
              /\ edited' = edited
              /\ calls' = [calls EXCEPT ![c] = returned(@, Render(engine, @.view, @.data))]
    /\ raced' = raced \cup Racing(calls')
    /\ UNCHANGED <<newVars, posVars, markerVars, extVars, funcVars, treeVars>>

\* the execution dropping from the engine a view whose execution failed
ExecuteDropsFailed(c) ==
    /\ calls[c].pc = "execute"
    /\ \E r \in {Render(engine, calls[c].view, calls[c].data)} :
           /\ calls' = [calls EXCEPT ![c] = returned(@, r)]
           /\ engine' = IF r.err = "" THEN engine
                        ELSE [v \in DOMAIN engine \ {calls[c].view} |-> engine[v]]
    /\ raced' = raced \cup Racing(calls')
    /\ UNCHANGED <<escaped, edited>>
    /\ UNCHANGED <<files, layoutSrc, set, layout, m, todo, pc, err, renders, last, posVars, markerVars, extVars, funcVars, treeVars>>

\* the execution of the escaped template, and Render's return value
ExecuteTemplate(c) ==
    /\ calls[c].pc = "execute"
    /\ \E r \in {Render(engine, calls[c].view, calls[c].data)}
                  \cup (IF c \in raced THEN {Undefined} ELSE {}) :
           calls' = [calls EXCEPT ![c] = returned(@, r)]
    /\ raced' = raced \cup Racing(calls')
    /\ UNCHANGED <<escaped, edited>>
    /\ UNCHANGED <<newVars, posVars, markerVars, extVars, funcVars, treeVars>>

\* the caller has its result and may call again
RenderReturns(c) ==
    /\ calls[c].pc = "done"
    /\ calls' = [calls EXCEPT ![c] = [pc |-> "idle"]]
    /\ raced' = raced \ {c}
    /\ UNCHANGED <<escaped, edited>>
    /\ UNCHANGED <<newVars, posVars, markerVars, extVars, funcVars, treeVars>>

NextRender ==
    \E c \in Callers :
        CallRender(c) \/ Lock(c) \/ Escape(c) \/ ExecuteTemplate(c) \/ RenderReturns(c)

SpecRender == InitRender /\ [][NextRender]_vars

(***************************************************************************)
(* One marker: its rewriting and the data it forwards                      *)
(***************************************************************************)
\* a value whose field Location has fields of its own
DataNested ==
    VMap([Name |-> VStr("Jane"),
          Location |-> VMap([Name |-> VStr("Olympus"), Location |-> VStr("Mars")],
                            "map[Location:Mars Name:Olympus]")],
         "map[Location:map[Location:Mars Name:Olympus] Name:Jane]")

\* the arguments after the target: none, a field, the dot, a string literal
ThirdArgs == {<<>>, <<Field("Location")>>, <<Field("Name")>>, <<Dot>>, <<Str("x")>>}

\* the commands a marker is written as: render or partial, with or without a
\* target, with or without a further argument, or with a field in place of the
\* target
MarkerArgs ==
    {<<Ident(f)>> \o t \o x : f \in {renderFunc, partialFunc},
                             t \in {<<Str("partial.html")>>}, x \in ThirdArgs}
        \cup {<<Ident(f)>> \o x : f \in {renderFunc, partialFunc},
                                 x \in {<<>>, <<Field("Name")>>}}

\* the tree of the template the marker stands in: at top level, or inside
\* {{with .Location}}
markerTree(mk) ==
    IF mk.ctx = "with" THEN <<With(Field("Location"), <<Action(mk.args, 20)>>, <<>>)>>
    ELSE <<Action(mk.args, 2)>>

\* a name space in which every template a marker can invoke prints its dot
Printing(tree) ==
    [x \in {"layout", "body", "partial.html"} |->
        IF x = "layout" THEN tree ELSE <<Action(<<Dot>>, 2)>>]

\* a marker in the layout or in a view, and the data the template is executed with
InitMarker ==
    /\ \E a \in MarkerArgs, typ \in {layoutType, viewType}, ctx \in {"top", "with"},
          dot \in {DataJohn, DataScalar, DataNested} :
         marker = [args |-> a, typ |-> typ, ctx |-> ctx, dot |-> dot]
    /\ rewritten = Nil
    /\ forwarded = Nil
    /\ files = <<>>
    /\ layoutSrc = DefaultLayout
    /\ set = <<>>
    /\ layout = Nil
    /\ m = <<>>
    /\ todo = {}
    /\ pc = "layout"
    /\ engine = Nil
    /\ err = NoErr
    /\ renders = 0
    /\ last = Nil
    /\ NoCalls
    /\ NoPos
    /\ NoExt
    /\ NoFuncs
    /\ NoTree

\* processTree on the template the marker stands in
RewriteMarker ==
    /\ rewritten = Nil
    /\ rewritten' = processTree([name |-> IF marker.typ = layoutType THEN "layout"
                                          ELSE "view.html",
                                 typ |-> marker.typ, tree |-> markerTree(marker),
                                 body |-> File(markerTree(marker), NoDefs)])
    /\ UNCHANGED <<marker, forwarded>>
    /\ UNCHANGED <<newVars, callVars, posVars, extVars, funcVars, treeVars>>

\* the rewritten template executed with the data
ForwardData ==
    /\ rewritten # Nil
    /\ rewritten.err = NoErr
    /\ forwarded = Nil
    /\ forwarded' = ExecNodes(Printing(rewritten.tree), rewritten.tree, marker.dot, "")
    /\ UNCHANGED <<marker, rewritten>>
    /\ UNCHANGED <<newVars, callVars, posVars, extVars, funcVars, treeVars>>

NextMarker == RewriteMarker \/ ForwardData

SpecMarker == InitMarker /\ [][NextMarker]_vars

(***************************************************************************)
(* pos applied to a text and an offset                                     *)
(***************************************************************************)
\* a text and an offset, from one before its start to one past its end
InitPos ==
    /\ posBody \in Bodies
    /\ posOffset \in -1..(2 * MaxLen + 1)
    /\ position = Nil
    /\ files = <<>>
    /\ layoutSrc = DefaultLayout
    /\ set = <<>>
    /\ layout = Nil
    /\ m = <<>>
    /\ todo = {}
    /\ pc = "layout"
    /\ engine = Nil
    /\ err = NoErr
    /\ renders = 0
    /\ last = Nil
    /\ NoCalls
    /\ NoMarker
    /\ NoExt
    /\ NoFuncs
    /\ NoTree

\* the call of pos
Locate ==
    /\ position = Nil
    /\ position' = pos(posBody, posOffset)
    /\ UNCHANGED <<posBody, posOffset>>
    /\ UNCHANGED <<newVars, callVars, markerVars, extVars, funcVars, treeVars>>

NextPos == Locate

SpecPos == InitPos /\ [][NextPos]_vars

(***************************************************************************)
(* engine.go: hasExt, applied to a list of extensions and an extension     *)
(***************************************************************************)
\* the characters of the extensions: a dot, a letter in both cases, another
ExtChars == {".", "a", "A", "b"}

\* strings.ToLower
ToLower(x) == [i \in 1..Len(x) |-> IF x[i] = "A" THEN "a" ELSE x[i]]

\* strings.TrimPrefix(x, ".")
TrimPrefixDot(x) == IF Len(x) > 0 /\ x[1] = "." THEN Tail(x) ELSE x

\* strings.TrimLeft(x, "."), which removes every leading dot
RECURSIVE TrimLeftDots(_)
TrimLeftDots(x) == IF Len(x) > 0 /\ x[1] = "." THEN TrimLeftDots(Tail(x)) ELSE x

sanitize(x) == ToLower(TrimPrefixDot(x))

\* hasExt were every leading dot stripped
hasExtTrimLeft(es, x) ==
    /\ x # <<>>
    /\ \E i \in DOMAIN es : ToLower(TrimLeftDots(es[i])) = ToLower(TrimLeftDots(x))

\* the loop over exts
RECURSIVE hasExtLoop(_, _)
hasExtLoop(es, x) ==
    IF es = <<>> THEN FALSE
    ELSE IF sanitize(Head(es)) = sanitize(x) THEN TRUE
    ELSE hasExtLoop(Tail(es), x)

hasExt(es, x) == IF x = <<>> THEN FALSE ELSE hasExtLoop(es, x)

\* the extensions asked about: every string of up to MaxExt characters
Exts == UNION {[1..n -> ExtChars] : n \in 0..MaxExt}

\* the extensions listed: with and without the dot, in both cases, and empty
Listed == {<<".", "a">>, <<"a">>, <<".", "A">>, <<".", "b">>, <<>>}

ExtLists == UNION {[1..n -> Listed] : n \in 0..MaxExts}

InitExt ==
    /\ exts \in ExtLists
    /\ ext \in Exts
    /\ matched = Nil
    /\ NoNew
    /\ NoCalls
    /\ NoPos
    /\ NoMarker
    /\ NoFuncs
    /\ NoTree
    /\ NoFuncs
    /\ NoTree

\* the call of hasExt
HasExt ==
    /\ matched = Nil
    /\ matched' = [found |-> hasExt(exts, ext)]
    /\ UNCHANGED <<exts, ext>>
    /\ UNCHANGED <<newVars, callVars, posVars, markerVars, funcVars, treeVars>>

NextExt == HasExt

SpecExt == InitExt /\ [][NextExt]_vars

(***************************************************************************)
(* engine.go: setup, the function table                                    *)
(***************************************************************************)
\* the placeholder functions, each by a name of its own
Placeholders == {"renderPlaceholder", "partialPlaceholder"}

placeholderFuncs ==
    [k \in {renderFunc, partialFunc} |->
        IF k = renderFunc THEN "renderPlaceholder" ELSE "partialPlaceholder"]

\* the names a caller binds and the functions it binds them to
FuncNames == {renderFunc, partialFunc, "upper", "lower"}
UserFuncs == {"f", "g"}

\* the maps a caller can give with WithFuncMap
FuncMaps == UNION {[ks -> UserFuncs] : ks \in SUBSET FuncNames}

\* funcMap := placeholderFuncs(); for k, f := range c.funcMap.val { funcMap[k] = f }
setupFuncMap(given) ==
    IF given = Nil THEN placeholderFuncs
    ELSE [k \in DOMAIN placeholderFuncs \cup DOMAIN given |->
            IF k \in DOMAIN given THEN given[k] ELSE placeholderFuncs[k]]

InitFuncs ==
    /\ options \in FuncMaps \cup {Nil}
    /\ funcMap = Nil
    /\ NoNew
    /\ NoCalls
    /\ NoPos
    /\ NoMarker
    /\ NoExt
    /\ NoTree
    /\ NoTree

\* the call of setup
Setup ==
    /\ funcMap = Nil
    /\ funcMap' = setupFuncMap(options)
    /\ UNCHANGED options
    /\ UNCHANGED <<newVars, callVars, posVars, markerVars, extVars, treeVars>>

NextFuncs == Setup

SpecFuncs == InitFuncs /\ [][NextFuncs]_vars

(***************************************************************************)
(* process.go: processTree applied to a tree, and applied again            *)
(***************************************************************************)
\* the nodes without a list: text, actions that call neither render nor partial
\* (one of them with the file's own name as its string argument), and markers
Leaves ==
    {Text("a"),
     Action(<<Field("Name")>>, 0),
     Action(<<Ident("printf"), Str("view.html")>>, 0),
     Action(<<Ident("printf"), Str("x"), Field("Name")>>, 0),
     Action(<<Ident("render")>>, 0),
     Action(<<Ident("render"), Str("head")>>, 0),
     Action(<<Ident("partial"), Str("p.html"), Field("F")>>, 0),
     Action(<<Ident("partial")>>, 0),
     Action(<<Ident("partial"), Str("view.html")>>, 0)}

\* if, with and range with markers in their lists and else lists, one and two deep
Blocks ==
    {If(Field("Name"), <<Action(<<Ident("partial"), Str("p.html"), Field("F")>>, 0)>>, <<>>),
     If(Field("Name"), <<>>, <<Action(<<Ident("partial"), Str("p.html"), Field("F")>>, 0)>>),
     With(Field("Name"), <<Action(<<Ident("render")>>, 0)>>, <<Action(<<Field("Name")>>, 0)>>),
     Range(Field("Items"), <<Action(<<Ident("partial")>>, 0)>>,
                           <<Action(<<Ident("render")>>, 0)>>),
     Range(Field("Items"),
           <<Text("a"), Action(<<Ident("partial"), Str("p.html"), Field("F")>>, 0)>>,
           <<Action(<<Ident("printf"), Str("view.html")>>, 0)>>),
     With(Field("Name"),
          <<If(Field("Name"), <<Action(<<Ident("partial"), Str("p.html"), Field("F")>>, 0)>>,
                              <<Action(<<Ident("render"), Str("head")>>, 0)>>)>>, <<>>),
     If(Field("Name"), <<>>,
        <<Range(Field("Items"), <<Action(<<Field("Name")>>, 0)>>,
                                <<Action(<<Ident("partial")>>, 0)>>)>>),
     With(Field("Name"), <<Action(<<Ident("partial"), Str("view.html")>>, 0)>>,
                         <<Action(<<Ident("partial"), Str("p.html"), Field("F")>>, 0)>>)}

\* the parser's Pos: every action gets an offset of its own, told by its place
RECURSIVE Place(_, _)
Place(nodes, base) ==
    [i \in 1..Len(nodes) |->
        IF nodes[i].k = "action" THEN [nodes[i] EXCEPT !.pos = base + i]
        ELSE IF IsBlock(nodes[i])
          THEN [nodes[i] EXCEPT !.list = Place(nodes[i].list, 10 * (base + i)),
                                !.els = Place(nodes[i].els, 10 * (base + i) + 5)]
        ELSE nodes[i]]

\* the trees: up to MaxNodes nodes at the top level
Trees == UNION {{Place(t, 0) : t \in [1..n -> Leaves \cup Blocks]} : n \in 0..MaxNodes}

\* a parsed template: a registry file, or the layout
InitTree ==
    /\ parsed \in Trees
    /\ \E name \in {"view.html", "layout"} :
          tmpl = [name |-> name, typ |-> "", tree |-> parsed, body |-> File(parsed, NoDefs)]
    /\ prev = parsed
    /\ result = Nil
    /\ passes = 0
    /\ NoNew
    /\ NoCalls
    /\ NoPos
    /\ NoMarker
    /\ NoExt
    /\ NoFuncs

\* what a call of processTree leaves: r is what it returned
processed(typ, r) ==
    /\ tmpl' = [tmpl EXCEPT !.typ = typ, !.tree = r.tree]
    /\ prev' = tmpl.tree
    /\ result' = [ts |-> r.ts, err |-> r.err]
    /\ passes' = passes + 1

\* the role is stamped and processTree is called: on the layout once, on a file
\* as a view or as a partial, again as long as no call failed
ProcessTree(typ) ==
    /\ passes < MaxPasses
    /\ result # Nil => result.err = NoErr
    /\ IF tmpl.name = "layout" THEN typ = layoutType /\ passes = 0
       ELSE typ \in {viewType, partialType}
    /\ processed(typ, processTree([tmpl EXCEPT !.typ = typ]))
    /\ UNCHANGED parsed
    /\ UNCHANGED <<newVars, callVars, posVars, markerVars, extVars, funcVars>>

NextTree == \E typ \in {layoutType, viewType, partialType} : ProcessTree(typ)

SpecTree == InitTree /\ [][NextTree]_vars

(***************************************************************************)
(* What the claims speak of                                                *)
(***************************************************************************)
Done == pc = "done"
Failed == pc = "failed"
\* New has returned
Returned == Done \/ Failed

RECURSIVE Markers(_)
\* the marker actions of a tree, at any depth, in document order: callee, target
\* ("" when no string literal names one), position
Markers(nodes) ==
    IF nodes = <<>> THEN <<>>
    ELSE LET n == Head(nodes)
         IN  (CASE n.k = "action" /\ getActionArgs(n.args).fn \in {renderFunc, partialFunc} ->
                     <<[fn |-> getActionArgs(n.args).fn,
                        name |-> getActionArgs(n.args).file, pos |-> n.pos]>>
                [] IsBlock(n) -> Markers(n.list) \o Markers(n.els)
                [] OTHER -> <<>>) \o Markers(Tail(nodes))

Range_(seq) == {seq[i] : i \in DOMAIN seq}

\* the markers of the layout's source
LayoutMarkers == Range_(Markers(layoutSrc.tree))
\* the markers of a file's source: of its top-level content, of the sections it
\* defines, and all of them
TreeMarkers(f) == Range_(Markers(files[f].tree))
SectionMarkers(f) == UNION {Range_(Markers(files[f].defs[x])) : x \in DOMAIN files[f].defs}
FileMarkers(f) == TreeMarkers(f) \cup SectionMarkers(f)

\* the partial targets of a set of markers
PartialTargets(ms) == {x.name : x \in {y \in ms : y.fn = partialFunc}}

RECURSIVE Templates(_)
\* the template invocations of a tree, at any depth: name, position, argument
Templates(nodes) ==
    IF nodes = <<>> THEN {}
    ELSE LET n == Head(nodes)
         IN  (CASE n.k = "template" -> {[name |-> n.name, pos |-> n.pos, args |-> n.args]}
                [] IsBlock(n) -> Templates(n.list) \cup Templates(n.els)
                [] OTHER -> {}) \cup Templates(Tail(nodes))

RECURSIVE Substituted(_)
\* a source tree with every marker replaced by an invocation of what it names,
\* against the argument it forwards
Substituted(nodes) ==
    IF nodes = <<>> THEN <<>>
    ELSE LET n == Head(nodes)
             a == IF n.k = "action" THEN getActionArgs(n.args) ELSE Nil
         IN  <<CASE n.k = "action" /\ a.fn = partialFunc ->
                      Template(a.file, IF a.field # Nil THEN a.field ELSE Dot, n.pos)
                 [] n.k = "action" /\ a.fn = renderFunc ->
                      Template(IF a.file = "" THEN "body" ELSE a.file, Dot, n.pos)
                 [] IsBlock(n) ->
                      [n EXCEPT !.list = Substituted(n.list), !.els = Substituted(n.els)]
                 [] OTHER -> n>> \o Substituted(Tail(nodes))

\* the page view v stands for: the layout, v's content as its body, v's sections,
\* every file under its name, and nothing for a section nobody defines
Page(v) ==
    [x \in {"layout", "body"} \cup DOMAIN files \cup DOMAIN files[v].defs
           \cup {y.name : y \in LayoutMarkers} |->
        CASE x = "layout" -> Substituted(layoutSrc.tree)
          [] x = "body" -> Substituted(files[v].tree)
          [] x \in DOMAIN files[v].defs -> Substituted(files[v].defs[x])
          [] x \in DOMAIN files -> Substituted(files[x].tree)
          [] OTHER -> <<>>]

\* the text the page of v is for data
Expected(v, data) == ExecNodes(Page(v), Page(v)["layout"], data, "")

\* the partial references of v and of the layout all resolve
Resolves(v) ==
    PartialTargets(FileMarkers(v)) \cup PartialTargets(LayoutMarkers) \subseteq DOMAIN files

TestScenario ==
    /\ files = TestFS
    /\ layoutSrc = TestLayout
    /\ Done
    /\ last # Nil
    /\ last.view = "view.html"
    /\ last.data = DataJohn

TestOutput == "<html><body>Hello, John Doe!<br>Location: Mars<br>Age: 40</body></html>"

\* C1: after a successful New, Render of a view whose partial references and the
\* layout's all resolve writes the layout's text with every marker replaced by
\* what it names, evaluated against the forwarded argument, and returns no error
\* unless that evaluation fails; with the files and data of TestRender it writes
\* exactly TestOutput.
C1_RenderWritesPage ==
    /\ (Done /\ last # Nil /\ last.view \in DOMAIN files /\ Resolves(last.view)) =>
          /\ last.out = Expected(last.view, last.data).out
          /\ (last.err = "") = Expected(last.view, last.data).ok
    /\ TestScenario => (last.out = TestOutput /\ last.err = "")

\* some file consumed as a partial, by the layout or by a file, holds a marker in
\* its top-level content
PartialWithMarker ==
    \E p \in DOMAIN files :
       /\ TreeMarkers(p) # {}
       /\ \/ p \in PartialTargets(LayoutMarkers)
          \/ \E f \in DOMAIN files : p \in PartialTargets(TreeMarkers(f))

\* some file holds a marker inside a section it defines
SectionMarker == \E f \in DOMAIN files : SectionMarkers(f) # {}

\* some view defines a section named "body" itself
DefinesBody == \E f \in DOMAIN files : "body" \in DOMAIN files[f].defs

\* the statement of C1 holds wherever no file consumed as a partial holds a
\* marker, no section holds one and no view defines "body"
RenderWritesPageOtherwise ==
    PartialWithMarker \/ SectionMarker \/ DefinesBody \/ C1_RenderWritesPage

\* the source markers of the template an error names: "layout" is the layout
SourceMarkers(file) ==
    IF file = "layout" THEN LayoutMarkers
    ELSE IF file \in DOMAIN files THEN TreeMarkers(file)
    ELSE {}

\* the marker the returned error is about
ErrMarkers == {x \in SourceMarkers(err.file) : x.pos = err.pos}

\* C2: Render of a view name that was not discovered at construction returns
\* exactly ErrNotFound and writes nothing, and no Render call changes the engine
\* or the registry.
C2_UnknownViewNotFound ==
    /\ [](Done /\ last # Nil /\ last.view \notin DOMAIN files
            => last.err = "ErrNotFound" /\ last.out = "")
    /\ [][renders' # renders => engine' = engine /\ m' = m /\ set' = set]_vars

C2_Witness ==
    /\ Done
    /\ last # Nil
    /\ last.view = "nonexistent.html"
    /\ last.err = "ErrNotFound"
    /\ DOMAIN engine # {}

\* C3: New returns either an engine in which every registry file has a composed
\* template and no error, or no engine and an error; nothing is returned before
\* construction ends, and a failure after some views were composed returns no
\* engine either.
C3_AllOrNothing ==
    /\ Done => engine # Nil /\ DOMAIN engine = DOMAIN set /\ err = NoErr
    /\ Failed => engine = Nil /\ err # NoErr
    /\ ~Returned => engine = Nil /\ err = NoErr

C3_Witness == Failed /\ DOMAIN m # {} /\ engine = Nil /\ err.kind = "notFound"

\* the targets of partial markers that are not in the registry: of the markers of
\* the layout and of the files' top-level content, and of all markers
MissingTreeTargets ==
    (PartialTargets(LayoutMarkers) \cup UNION {PartialTargets(TreeMarkers(f)) : f \in DOMAIN files})
        \ (DOMAIN files \cup {""})
MissingTargets ==
    (PartialTargets(LayoutMarkers) \cup UNION {PartialTargets(FileMarkers(f)) : f \in DOMAIN files})
        \ (DOMAIN files \cup {""})

\* C4: a partial marker of the layout or of a view that names a target missing
\* from the registry makes New fail: no engine is returned in which the missing
\* partial is left to Render or ignored.
C4_MissingPartialFails == MissingTargets # {} => ~Done

\* what holds of C4: a missing target named in the layout or in a file's
\* top-level content makes New fail, with ErrNotFound for that target unless a
\* marker error ends construction first
MissingPartialFailsAtTopLevel ==
    /\ MissingTreeTargets # {} => ~Done
    /\ (Failed /\ err.kind = "notFound") => err.ref \in MissingTreeTargets

\* the registry files that hold a render marker: in their top-level content, and
\* anywhere
RenderTreeFiles == {f \in DOMAIN files : \E x \in TreeMarkers(f) : x.fn = renderFunc}
RenderFiles == {f \in DOMAIN files : \E x \in FileMarkers(f) : x.fn = renderFunc}

\* C5: a registry file that holds a render marker makes New fail, whether or not
\* another file references it.
C5_RenderInViewFails == RenderFiles # {} => ~Done

\* what holds of C5: a render marker in a file's top-level content makes New
\* fail, and the error reported for it is the illegal-marker error unless its
\* target is the file itself, which is reported as a cyclic reference
RenderInViewFailsAtTopLevel ==
    /\ RenderTreeFiles # {} => ~Done
    /\ (Failed /\ err.fn = renderFunc /\ err.file \in DOMAIN files) =>
          /\ ErrMarkers # {}
          /\ \A x \in ErrMarkers :
                err.kind = IF x.name = err.file THEN "cyclic" ELSE "illegal"

\* C6: whenever a file consumed as a partial by the layout or by a file holds a
\* render or partial marker, New fails, for every order in which the registry's
\* files are composed.
C6_PartialWithMarkerFails == PartialWithMarker => ~Done

\* distinct registry files A and B whose top-level contents hold {{partial "B"}}
\* and {{partial "A"}}
Mutual ==
    \E a, b \in DOMAIN files :
       /\ a # b
       /\ b \in PartialTargets(TreeMarkers(a))
       /\ a \in PartialTargets(TreeMarkers(b))

SelfReference ==
    \/ \E x \in LayoutMarkers : x.name = layoutSrc.file
    \/ \E f \in DOMAIN files : \E x \in TreeMarkers(f) : x.name = f

\* C8: a file holding a render or partial marker whose target is the file's own
\* name makes New fail, in every role: layout, view or partial.
C8_SelfReferenceFails == SelfReference => ~Done

\* what holds of C8: a registry file naming itself in its top-level content makes
\* New fail
FileSelfReferenceFails == (\E f \in DOMAIN files : \E x \in TreeMarkers(f) : x.name = f) => ~Done

\* the partial markers without a literal target
NoTargetMarkers(ms) == {x \in ms : x.fn = partialFunc /\ x.name = ""}
\* such a marker in the layout or in a file's top-level content
NoTargetInTree ==
    \/ NoTargetMarkers(LayoutMarkers) # {}
    \/ \E f \in DOMAIN files : NoTargetMarkers(TreeMarkers(f)) # {}
\* such a marker anywhere in the layout or in a file
NoTarget ==
    \/ NoTargetMarkers(LayoutMarkers) # {}
    \/ \E f \in DOMAIN files : NoTargetMarkers(FileMarkers(f)) # {}

\* C9: a partial marker without a literal target, in the layout or in a view,
\* makes New fail, so it is never evaluated by Render.
C9_NoTargetFails == NoTarget => ~Done

\* what holds of C9: such a marker in the layout or in a file's top-level content
\* makes New fail; it is never rewritten into a template invocation; the error
\* reported for it is the missing-target error when its file is processed as the
\* layout or a view, the illegal-marker error when it is consumed as a partial
NoTargetFailsAtTopLevel ==
    /\ NoTargetInTree => ~Done
    /\ \A f \in DOMAIN set : \A x \in Templates(set[f].tree) : x.name # ""
    /\ layout # Nil => \A x \in Templates(layout["layout"]) : x.name # ""
    /\ (Failed /\ NoTargetMarkers(ErrMarkers) # {}) =>
          err.kind = IF err.typ = partialType THEN "illegal" ELSE "missingTarget"

\* C10: a render marker without a target in the layout is rewritten into an
\* invocation of "body" against dot, and in the composed template of every view
\* "body" is bound to the view's own top-level tree, so Render of the view writes
\* the view's content where the layout has {{render}}.
C10_BodyIsView ==
    Done =>
      \A v \in DOMAIN engine :
         /\ "body" \in DOMAIN engine[v]
         /\ engine[v]["body"] = set[v].tree
         /\ \A x \in LayoutMarkers :
               (x.fn = renderFunc /\ x.name = "") =>
                  [name |-> "body", pos |-> x.pos, args |-> <<Dot>>]
                      \in Templates(engine[v]["layout"])
         /\ (last # Nil /\ last.view = v /\ last.err = "" /\ layoutSrc = SelfLayout) =>
               last.out = ExecNodes(engine[v], set[v].tree, last.data, "").out

\* the statement of C10 holds wherever no view defines a section named "body"
BodyIsViewWithoutOwnBody == DefinesBody \/ C10_BodyIsView

\* the render targets of a set of markers
RenderTargets(ms) == {x.name : x \in {y \in ms : y.fn = renderFunc /\ y.name # ""}}

\* the sections the layout renders that no registry file matches
LayoutSections == RenderTargets(LayoutMarkers) \ DOMAIN files

\* the partial targets of the layout that are missing from the registry
MissingLayoutTargets == PartialTargets(LayoutMarkers) \ (DOMAIN files \cup {""})

\* what C11 says of the sections in Sections and of the missing partial targets
\* in Missing
SectionTolerance(Sections, Missing) ==
    /\ (Sections # {} /\ MissingLayoutTargets = {} /\ pc # "layout") =>
          /\ layout # Nil
          /\ \A x \in Sections : x \in DOMAIN layout /\ layout[x] = <<>>
    /\ Done =>
          \A v \in DOMAIN engine :
             /\ \A x \in Sections \ DOMAIN files[v].defs :
                   x \in DOMAIN engine[v] /\ engine[v][x] = <<>>
             /\ (layoutSrc = SelfLayout /\ last # Nil /\ last.view = v /\ Escapable(engine[v])) =>
                   /\ last.out = ExecNodes(engine[v], engine[v]["body"], last.data, "").out
                   /\ (last.err = "") = ExecNodes(engine[v], engine[v]["body"], last.data, "").ok
    /\ (MissingLayoutTargets # {} /\ pc # "layout") =>
          /\ Failed
          /\ DOMAIN m = {}
          /\ err.kind = "notFound"
          /\ err.ref \in MissingLayoutTargets
    /\ Missing # {} => ~Done

\* C11: a section the layout renders that no registry file matches and the view
\* does not define is bound to an empty template, so the layout composes and
\* Render writes nothing for it; a missing partial target of the layout makes New
\* fail with ErrNotFound; and no other missing reference is tolerated.
C11_MissingSectionTolerated == SectionTolerance(LayoutSections, MissingTargets)

\* what holds of C11: the same for every section not named "layout", and for the
\* missing references of the files' top-level content
SectionToleratedButLayout == SectionTolerance(LayoutSections \ {"layout"}, MissingTreeTargets)

UndefinedNames(ns) == Reach(ns, {"layout"}, {}) \ DOMAIN ns

\* C13: every composed view is self-contained: each template name invoked from
\* the layout root on, through the grafted body and the grafted partials, is
\* defined in that same composed template.
C13_SelfContained == Done => \A v \in DOMAIN engine : UndefinedNames(engine[v]) = {}

\* what holds of C13: the composed views are self-contained wherever no file
\* consumed as a partial holds a marker
SelfContainedOtherwise == PartialWithMarker \/ C13_SelfContained

\* engine e of another construction, when there is one, renders as the last call
\* of Render did
RendersAsLast(e) ==
    e.err = NoErr => Render(e.m, last.view, last.data) = [out |-> last.out, err |-> last.err]

\* C14: any two engines built from the same file collection and layout render
\* every view with every data value to the same outcome and the same output,
\* whatever order the maps of the construction were ranged in.
C14_Deterministic ==
    (Done /\ last # Nil) =>
        \A order \in Orders(DOMAIN files) : \A ords \in TemplateOrders(files) :
            RendersAsLast(newEngine(files, layoutSrc.tree, order, ords))

\* what holds of C14: the engines that can be built render alike wherever no
\* file consumed as a partial holds a marker and no view defines "body"
DeterministicOtherwise == PartialWithMarker \/ DefinesBody \/ C14_Deterministic

\* the names view v may add to its clone of the layout: "body", the sections it
\* defines and the partials its content references
OwnNames(v) == {"body"} \cup DOMAIN files[v].defs \cup PartialTargets(TreeMarkers(v))

\* C15: the composed template of a view defines nothing but what the composed
\* layout defines, the sections the view defines and the partials it references,
\* and what it takes from the layout it holds as the layout holds it; composing
\* the views leaves the composed layout as parseLayout returned it.
C15_NoLeak ==
    /\ [](Done => \A v \in DOMAIN engine :
                     /\ DOMAIN engine[v] \subseteq DOMAIN layout \cup OwnNames(v)
                     /\ \A x \in DOMAIN layout \ OwnNames(v) : engine[v][x] = layout[x])
    /\ [][layout # Nil => layout' = layout]_vars

\* views were composed, one with a section and one with a partial that a third
\* has not
C15_Witness ==
    /\ Done
    /\ \E u, v, w \in DOMAIN engine :
          /\ "head" \in DOMAIN files[v].defs
          /\ "head" \in DOMAIN engine[v]
          /\ "head" \notin DOMAIN engine[w]
          /\ \E x \in PartialTargets(TreeMarkers(u)) :
                x \in DOMAIN engine[u] /\ x \notin DOMAIN engine[w]

\* the result a call of Render has when it runs alone
Alone(call) == Render(engine, call.view, call.data)

\* every call that returned and is among cs returned what it returns alone
AsAlone(cs) ==
    \A c \in cs : calls[c].pc = "done" =>
                     [out |-> calls[c].out, err |-> calls[c].err] = Alone(calls[c])

\* C16: on a built engine Render writes to no parse tree of the registry, and
\* every call of any interleaving of concurrent calls returns the result and the
\* output it returns when it runs alone.
C16_RenderWritesNothing ==
    /\ edited = {}
    /\ AsAlone(Callers)

\* what holds of C16: the engine map and the registry map are never assigned to,
\* and a call whose accesses raced with no other returns what it returns alone
RenderKeepsEngine ==
    /\ [](AsAlone(Callers \ raced))
    /\ [][engine' = engine /\ set' = set]_vars

\* an execution of the composed template of the call's view fails
ExecutionFails(call) ==
    /\ call.view \in DOMAIN engine
    /\ ~Execute(engine[call.view], call.data).ok

Consumed ==
    (PartialTargets(LayoutMarkers) \cup UNION {PartialTargets(TreeMarkers(f)) : f \in DOMAIN files})
        \cap DOMAIN files

\* C18: after a successful New the engine holds a composed template for every
\* file of the registry, the files consumed as partials included, and for no
\* other name; Render returns ErrNotFound for exactly the other names.
C18_ViewsAreRegistryKeys ==
    Done => /\ DOMAIN engine = DOMAIN files
            /\ DOMAIN files = DOMAIN set
            /\ last # Nil => (last.err = "ErrNotFound" <=> last.view \notin DOMAIN set)

\* a file consumed as a partial was rendered as a view
C18_Witness ==
    /\ Done
    /\ last # Nil
    /\ last.view \in Consumed
    /\ last.err = ""
    /\ last.out # ""

\* the dot at the marker, when execution reaches it: the data at top level, its
\* field Location inside {{with .Location}}
CallerDot == IF marker.ctx = "with" THEN marker.dot.v["Location"] ELSE marker.dot

\* execution reaches the marker
MarkerReached ==
    marker.ctx = "with" => marker.dot.t = "map" /\ "Location" \in DOMAIN marker.dot.v

\* the marker is a partial whose argument after the target is a field
ForwardsField ==
    /\ marker.args[1] = Ident(partialFunc)
    /\ Len(marker.args) > 2
    /\ marker.args[3].t = "field"

\* val is what the invoked template was given as its dot
Given(val) == forwarded.ok /\ forwarded.out = HTMLEscape(Format(val))

RECURSIVE StartOf(_, _)
\* the byte offset at which the k-th character of a text starts
StartOf(str, k) == IF k = 1 THEN 0 ELSE StartOf(str, k - 1) + Width(str[k - 1])

\* the characters of the text that start before the offset, the line feeds among
\* them, and the last of these (0 when there is none)
StartBefore == {k \in DOMAIN posBody : StartOf(posBody, k) < posOffset}
FeedsBefore == {k \in StartBefore : posBody[k] = "\n"}
LastFeed == IF FeedsBefore = {} THEN 0 ELSE CHOOSE k \in FeedsBefore : \A j \in FeedsBefore : j <= k

\* the offset is at the end of the text or past it
PastEnd == posBody = <<>> \/ posOffset >= StartOf(posBody, Len(posBody)) + Width(posBody[Len(posBody)])

\* C20: the line pos returns is one more than the number of line feeds among the
\* characters that start before the offset, and the column one more than the
\* number of those characters that come after the last such line feed; offset 0
\* and the empty text give (1, 1), and an offset past the end gives the position
\* just after the last character.
C20_PosCounts ==
    position # Nil =>
        /\ position.line = 1 + Cardinality(FeedsBefore)
        /\ position.col = 1 + Cardinality({k \in StartBefore : k > LastFeed})
        /\ (posOffset = 0 \/ posBody = <<>>) => position = [line |-> 1, col |-> 1]
        /\ PastEnd =>
              /\ position.line = 1 + Cardinality({k \in DOMAIN posBody : posBody[k] = "\n"})
              /\ position.col = 1 + Cardinality({k \in DOMAIN posBody :
                                                   \A j \in k..Len(posBody) : posBody[j] # "\n"})

\* the position asked for lies after a letter of two bytes and a line feed, at
\* the end of the text
C20_Witness ==
    /\ position # Nil
    /\ posBody = <<"é", "\n", "a">>
    /\ posOffset = 4
    /\ position = [line |-> 2, col |-> 2]

\* New failed with an error of the rewriter
RewriteError == Failed /\ err.kind \in {"illegal", "cyclic", "missingTarget"}

\* marker x is one the returned error can be about
Offends(x) ==
    CASE err.kind = "cyclic" -> x.name = err.file \/ (err.file = "layout" /\ x.name = "layout")
      [] err.kind = "missingTarget" -> x.fn = partialFunc /\ x.name = ""
      [] OTHER -> x.fn = err.fn

\* the returned error gives the line and column, in the text raw, of one of the
\* markers ms that it can be about
LocatedAmong(ms, raw) ==
    \E x \in ms : /\ Offends(x)
                  /\ err.pos = x.pos
                  /\ pos(raw, x.pos) = [line |-> err.line, col |-> err.col]

\* what C21 says when the layout goes in its errors by the name layoutName
ErrorLocated(layoutName) ==
    RewriteError =>
        \/ /\ err.file = layoutName
           /\ LocatedAmong(LayoutMarkers, Raw(File(layoutSrc.tree, NoDefs)))
        \/ /\ err.file \in DOMAIN files
           /\ LocatedAmong(TreeMarkers(err.file), Raw(files[err.file]))

\* C21: an error of the rewriter that New returns carries the name of the file
\* the offending marker stands in and the line and column of that marker,
\* counted from 1 in that file's raw source.
C21_ErrorLocated == ErrorLocated(layoutSrc.file)

\* what holds of C21: the same with the layout named "layout" whatever file it is
ErrorLocatedButLayoutName == ErrorLocated("layout")

\* the letters c and d are the same but for their case
SameLetter(c, d) == c = d \/ {c, d} = {"a", "A"}

\* the number of characters a leading dot takes: one if there is one
LeadingDot(x) == IF x # <<>> /\ x[1] = "." THEN 1 ELSE 0

\* e and x are the same once one leading dot is taken off each and case is ignored
SameExt(e, x) ==
    /\ Len(e) - LeadingDot(e) = Len(x) - LeadingDot(x)
    /\ \A i \in 1..(Len(x) - LeadingDot(x)) : SameLetter(e[i + LeadingDot(e)], x[i + LeadingDot(x)])

\* C22: hasExt(exts, ext) is true exactly when ext is not empty and some listed
\* extension equals it once one leading dot is stripped from both and both are
\* lower-cased; an empty ext and an empty list never match.
C22_HasExt ==
    matched # Nil =>
        /\ matched.found = (ext # <<>> /\ \E i \in DOMAIN exts : SameExt(exts[i], ext))
        /\ (ext = <<>> \/ exts = <<>>) => ~matched.found

\* ".A" is found in a list that holds "a" after another extension
C22_Witness ==
    /\ exts = <<<<".", "b">>, <<"a">>>>
    /\ ext = <<".", "A">>
    /\ matched = [found |-> TRUE]

\* C23: the function table binds render and partial to the placeholders,
\* whatever the caller gave with WithFuncMap.
C23_ReservedBound ==
    funcMap # Nil => \A k \in {renderFunc, partialFunc} : funcMap[k] = placeholderFuncs[k]

\* what holds of C23: the table binds every name the caller gave to the caller's
\* function, and the reserved names the caller did not give to the placeholders
CallerEntriesWin ==
    funcMap # Nil =>
        /\ DOMAIN funcMap = {renderFunc, partialFunc} \cup (IF options = Nil THEN {} ELSE DOMAIN options)
        /\ \A k \in DOMAIN funcMap :
              funcMap[k] = IF options # Nil /\ k \in DOMAIN options THEN options[k]
                           ELSE placeholderFuncs[k]

\* registry file n has been through processTree: its role is stamped
Processed(n) == n \in DOMAIN set /\ set[n].typ # ""

\* a step leaves the tree of every processed file as it is and returns no error
\* of the rewriter about such a file
KeepsProcessed ==
    \A n \in DOMAIN set :
        Processed(n) =>
            /\ set'[n].tree = set[n].tree
            /\ ~(pc' = "failed" /\ err'.file = n
                    /\ err'.kind \in {"illegal", "cyclic", "missingTarget"})

\* every composed template in which a registry file stands under its name holds
\* the file's tree as the registry has it
ReusesRegistryTrees ==
    /\ layout # Nil =>
          \A n \in DOMAIN layout \cap DOMAIN set : Processed(n) /\ layout[n] = set[n].tree
    /\ \A v \in DOMAIN m : \A n \in DOMAIN m[v] \cap DOMAIN set :
          Processed(n) /\ m[v][n] = set[n].tree

\* C24: once processTree succeeded on a registry file, no later call on it, in
\* whatever role, replaces a node or returns an error, and every composition that
\* refers to the file holds that one rewritten tree.
C24_RewrittenOnce == []ReusesRegistryTrees /\ [][KeepsProcessed]_vars

\* view.html, which holds a marker, went through processTree as a view and as
\* the partial of another view
C24_Witness ==
    /\ Done
    /\ "view.html" \in DOMAIN files
    /\ files["view.html"] = ViewSrc
    /\ \E n \in DOMAIN files : files[n] = RefViewSrc
    /\ "view.html" \in DOMAIN m
    /\ set["view.html"].typ = partialType

\* the registry files a partial marker of the layout or of some file names
Consumers == UNION {PartialTargets(TreeMarkers(f)) : f \in DOMAIN files}
                \cup PartialTargets(LayoutMarkers)

\* C25: when New succeeds, every registry file that the layout or some file
\* names as a partial target carries the role partial, and every other file the
\* role view.
C25_RolesFollowConsumption ==
    Done => \A n \in DOMAIN set :
                set[n].typ = IF n \in Consumers THEN partialType ELSE viewType

\* what holds of C25: when New succeeds every file carries the role view or
\* partial, a file that carries partial is named as a target, and a file that no
\* marker names carries view
RolesWithinConsumption ==
    Done => \A n \in DOMAIN set :
                /\ set[n].typ \in {viewType, partialType}
                /\ set[n].typ = partialType => n \in Consumers \cup RenderTargets(LayoutMarkers)
                /\ n \notin Consumers \cup RenderTargets(LayoutMarkers) => set[n].typ = viewType

RECURSIVE ActionNodes(_)
\* the action nodes of a tree in document order, at any depth of if, with and range
ActionNodes(nodes) ==
    IF nodes = <<>> THEN <<>>
    ELSE (CASE Head(nodes).k = "action" -> <<Head(nodes)>>
            [] IsBlock(Head(nodes)) -> ActionNodes(Head(nodes).list) \o ActionNodes(Head(nodes).els)
            [] OTHER -> <<>>) \o ActionNodes(Tail(nodes))

\* an action that calls render or partial
IsMarker(node) == node.k = "action" /\ getActionArgs(node.args).fn \in {renderFunc, partialFunc}

\* the actions of a tree that call neither render nor partial
NonMarkers(nodes) == {a \in Range_(ActionNodes(nodes)) : ~IsMarker(a)}

\* processTree has been called on the template
Called == passes > 0

\* after a call, the actions among as stand in the tree as they were parsed and
\* the error returned, if any, is not at one of them
Inert(as) ==
    Called =>
        /\ as \subseteq NonMarkers(tmpl.tree)
        /\ result.err # NoErr => result.err.pos \notin {a.pos : a \in as}

\* C26: an action that calls neither render nor partial is left as it is by
\* processTree and is never what processTree fails on, whatever its arguments.
C26_NonMarkersInert == Inert(NonMarkers(parsed))

\* what holds of C26: the same of the actions whose second argument is not a
\* string literal equal to the template's name
NonMarkersInertButOwnName ==
    Inert({a \in NonMarkers(parsed) : getActionArgs(a.args).file # tmpl.name})

\* the name a marker resolves to: its target, or "body" for a render without one
Resolved(node) ==
    IF getActionArgs(node.args).file = "" THEN "body" ELSE getActionArgs(node.args).file

RECURSIVE Local(_, _)
\* list after is list before with, index by index, every marker replaced by a
\* template invocation of the resolved name at the marker's position, every
\* if, with and range kept with its lists so rewritten, and every other node kept
Local(before, after) ==
    /\ Len(after) = Len(before)
    /\ \A i \in DOMAIN before :
          CASE IsMarker(before[i]) ->
                   /\ after[i].k = "template"
                   /\ after[i].name = Resolved(before[i])
                   /\ after[i].pos = before[i].pos
            [] IsBlock(before[i]) ->
                   /\ after[i].k = before[i].k
                   /\ after[i].cond = before[i].cond
                   /\ Local(before[i].list, after[i].list)
                   /\ Local(before[i].els, after[i].els)
            [] OTHER -> after[i] = before[i]

\* no call of processTree on the template has failed
Succeeded == Called /\ result.err = NoErr

C28_NoMarkerRemains == Succeeded => Markers(tmpl.tree) = <<>>

\* processTree succeeded on a layout whose source holds a marker inside a range
C28_Witness ==
    /\ Succeeded
    /\ tmpl.typ = layoutType
    /\ passes = 1
    /\ \E i \in DOMAIN parsed : parsed[i].k = "range" /\ Markers(parsed[i].list) # <<>>

\* construction r ended as the one that returned: with the same error, and on
\* success with the same composed template for every view
SameOutcome(r) == r.err = err /\ (Done => r.m = engine)

\* C29: what New returned is what it returns for every order in which the loop
\* of newEngine can visit the registry's files: the same composed templates, or
\* the same error.
C29_OrderIndependent ==
    Returned =>
        \E ords \in TemplateOrders(files) : \A order \in Orders(DOMAIN files) :
            SameOutcome(newEngine(files, layoutSrc.tree, order, ords))

\* construction r succeeded or failed as the one that returned, and on success
\* with the same composed template for every view
SameSuccess(r) == (r.err = NoErr) = Done /\ (Done => r.m = engine)

\* what holds of C29: wherever no file consumed as a partial holds a marker,
\* every order gives success with the same composed templates or every order
\* gives failure, with an error that can differ from order to order
OrderIndependentOtherwise ==
    \/ PartialWithMarker
    \/ Returned =>
          \E ords \in TemplateOrders(files) : \A order \in Orders(DOMAIN files) :
              SameSuccess(newEngine(files, layoutSrc.tree, order, ords))

\* marker x is one processActionNode returns an error for in the template
IsOffender(x) ==
    \/ x.name = tmpl.name
    \/ invalidFuncType(tmpl.typ, x.fn)
    \/ x.fn = partialFunc /\ x.name = ""

\* the offending markers of the tree the call was made on, in document order
Offenders == SelectSeq(Markers(prev), IsOffender)

\* the first call of processTree on the template returned an error
FirstFailed == passes = 1 /\ result.err # NoErr

\* C30: when the tree holds more than one offending marker, the error of
\* processTree is that of the first of them in document order.
C30_FirstOffender ==
    (FirstFailed /\ Len(Offenders) > 1) => result.err.pos = Offenders[1].pos

\* action a is one processActionNode returns an error for in the template
ActionOffends(a) ==
    \/ getActionArgs(a.args).file = tmpl.name
    \/ invalidFuncType(tmpl.typ, getActionArgs(a.args).fn)
    \/ getActionArgs(a.args).fn = partialFunc /\ getActionArgs(a.args).file = ""

\* the offending actions of the tree the call was made on, in document order
OffendingActions == SelectSeq(ActionNodes(prev), ActionOffends)

\* what holds of C30: processTree fails when some action offends, and its error
\* is that of the last offending action in document order
LastOffender ==
    passes = 1 =>
        /\ (result.err # NoErr) = (Len(OffendingActions) > 0)
        /\ result.err # NoErr =>
              result.err.pos = OffendingActions[Len(OffendingActions)].pos
====
